---- MODULE Spec2Model ----
(***************************************************************************)
(* Verification model of the ETI news-intelligence backend.                *)
(*                                                                         *)
(*  - the ingestion pipeline (app/ingest/pipeline.py) running over one     *)
(*    SQLAlchemy session per run, against a store that other sessions      *)
(*    read and write (READ COMMITTED: a session sees the committed rows    *)
(*    and its own flushed ones);                                           *)
(*  - the admin chunking task (app/api/admin.py);                          *)
(*  - IngestionService.upsert_article;                                     *)
(*  - VectorSearchService.search.                                          *)
(***************************************************************************)
EXTENDS Integers, Sequences, FiniteSets, TLC

\* ------------------------------------------------------------------ bounds

\* Consecutive pipeline runs one process performs.
MaxRuns == 2
\* The largest number of chunks the chunker yields for one article text.
MaxChunks == 2

\* ------------------------------------------------------------------ inputs

URLs == {"u1", "u2"}

\* The processes that call run_full_ingestion_pipeline: the scheduler worker
\* (worker.py) and the API process (/admin/run-pipeline).
Procs == {"worker", "api"}

\* The background tasks started by two requests of /admin/process-articles.
Tasks == {"task1", "task2"}

\* Source rows (db/models.py Source): type, name, whether rss_url names a
\* registered scraper, and the entries its feed or site yields.
RssSource(es) ==
    [type |-> "rss", name |-> "other", registered |-> FALSE, feed |-> es]
NesoSource(es) ==
    [type |-> "web_scraper", name |-> "NESO", registered |-> TRUE, feed |-> es]
UnknownScraperSource ==
    [type |-> "web_scraper", name |-> "other", registered |-> FALSE, feed |-> <<>>]

\* parsed_article.get("published_at") of the entry with this URL: u1 stands for
\* an entry that carries no date.
PublishedAt(u) == IF u = "u2" THEN "2024-01-01" ELSE "NULL"

\* The enabled-source lists the sequential runs are checked over.
SourceLists ==
    { << RssSource(<<"u1">>), NesoSource(<<"u2">>) >>,
      << UnknownScraperSource, RssSource(<<"u1", "u1">>) >> }

\* ------------------------------------------------------------------- state

VARIABLES
    sources,    \* the enabled Source rows, in query order
    active,     \* the processes that run the pipeline
    articles,   \* committed articles table: url -> row
    chunks,     \* committed article_chunks table: a set of rows
    pl,         \* per process: the state of its run_full_ingestion_pipeline
    gh,         \* per process: history of the run (not program state)
    adm,        \* per admin task: the state of its process_articles_task
    article_rows,   \* the articles table as an IngestionService session has it
    upserts,        \* the last two calls of upsert_article (not program state)
    article_chunks, \* the article_chunks table as VectorSearchService reads it
    searched,       \* the last call of VectorSearchService.search and its result
    invocation      \* a call of one of the other functions: arguments and result

\* The state of the services that are verified on their own.
upsertVars == << article_rows, upserts >>

searchVars == << article_chunks, searched >>

services == << upsertVars, searchVars, invocation >>

\* The state of the ingestion pipeline and of the admin tasks.
ingestVars == << sources, active, articles, chunks, pl, gh, adm >>

\* What the pipeline never writes.
env == << sources, active, adm, services >>

vars == << sources, active, articles, chunks, pl, gh, adm, article_rows, upserts,
          article_chunks, searched, invocation >>

\* An articles row.  content = 0 stands for content_text IS NULL; content = k > 0
\* for an extracted text that the chunker splits into k chunks.
ArticleRow(c, co, to, at) ==
    [exists |-> TRUE, content |-> c, country_codes |-> co, topic_tags |-> to,
     published_at |-> at]
NoRow ==
    [exists |-> FALSE, content |-> 0, country_codes |-> "NULL", topic_tags |-> "NULL",
     published_at |-> "NULL"]

\* An article_chunks row.  embedded = FALSE stands for embedding IS NULL.
\* by names the session that inserted the row.
ChunkRow(u, i, e, w, co, to, at) ==
    [url |-> u, chunk_index |-> i, embedded |-> e, by |-> w,
     country_codes |-> co, topic_tags |-> to, published_at |-> at]

\* IngestionMetrics.__init__
IngestionMetrics ==
    [sources_processed |-> 0, articles_fetched |-> 0, articles_new |-> 0,
     articles_updated |-> 0, articles_extracted |-> 0, articles_tagged |-> 0,
     chunks_created |-> 0, chunks_embedded |-> 0, errors |-> <<>>]

\* The in-memory Article object the loop body works on.
NoArticle ==
    [url |-> "none", isNew |-> FALSE, content |-> 0, country_codes |-> "NULL",
     topic_tags |-> "NULL", published_at |-> "NULL", n |-> 0,
     embedRaised |-> FALSE]

EmptyTx == [u \in {} |-> NoRow]

\* The session of a run: tx holds the article rows it flushed and did not
\* commit, deleted and added the chunk rows it marked for DELETE and INSERT.
IdleRun ==
    [pc |-> "idle", run |-> 0, srcIdx |-> 0, parsed_articles |-> <<>>,
     article |-> NoArticle, tx |-> EmptyTx, deleted |-> {}, added |-> {},
     metrics |-> IngestionMetrics]

NoHistory ==
    [last |-> "none", m0 |-> IngestionMetrics, srcOutcome |-> <<>>,
     extractFailedNew |-> {}, chunkOps |-> 0, prevClean |-> TRUE,
     clean |-> TRUE, lostOther |-> {}]

\* A process_articles_task: articles_data is the result of its first query.
IdleTask == [pc |-> "idle", articles_data |-> <<>>]

\* An optional value (a nullable column, an Optional argument) is None or a
\* value.
None == [isNone |-> TRUE, value |-> << >>]

Some(t) == [isNone |-> FALSE, value |-> t]

\* No call of VectorSearchService.search yet.
NoSearch ==
    [ called |-> FALSE, query_embedding |-> << 1, 0 >>, filters |-> None,
      k |-> 0, results |-> << >> ]

\* No call of another function.
NoCall == [fn |-> "none", returned |-> FALSE]

\* ----------------------------------------------------------- session views

\* What a SELECT of session p returns for url u.
ArticleView(p, u) ==
    IF u \in DOMAIN pl[p].tx THEN pl[p].tx[u] ELSE articles[u]

\* select(ArticleChunk).where(article_id == article.id) in session p.
ChunkView(p, u) ==
    { c \in (chunks \ pl[p].deleted) \cup pl[p].added : c.url = u }

\* A row written and not committed by another session holds its row lock.
LockedByOther(p, u) ==
    \E q \in Procs \ {p} : u \in DOMAIN pl[q].tx

\* db.rollback(), and the close of the session at the end of the async with.
Rollback(r) ==
    [r EXCEPT !.tx = EmptyTx, !.deleted = {}, !.added = {}]

\* chunking_service.chunk_article(content_text): the number of chunks of a text.
NChunks(content) == content

\* ------------------------------------------------------------------- Init

Init ==
    /\ sources \in SourceLists
    /\ active = {"worker"}
    /\ articles = [u \in URLs |-> NoRow]
    /\ chunks = {}
    /\ pl = [p \in Procs |-> IdleRun]
    /\ gh = [p \in Procs |-> NoHistory]
    /\ adm = [t \in Tasks |-> IdleTask]
    /\ article_rows = << >>
    /\ upserts = << >>
    /\ article_chunks = << >>
    /\ searched = NoSearch
    /\ invocation = NoCall

\* ------------------------------------------------- run_full_ingestion_pipeline

Step(p, r, h) ==
    /\ pl' = [pl EXCEPT ![p] = r]
    /\ gh' = [gh EXCEPT ![p] = h]

\* Lines 91-116: a new IngestionMetrics, a new session, the enabled sources.
StartRun(p) ==
    LET r == pl[p]
        h == gh[p]
    IN  /\ p \in active
        /\ r.pc \in {"idle", "done"}
        /\ r.run < MaxRuns
        /\ Step(p,
                [r EXCEPT !.pc = IF Len(sources) = 0 THEN "done" ELSE "source",
                          !.run = @ + 1, !.srcIdx = 0, !.metrics = IngestionMetrics,
                          !.article = NoArticle, !.parsed_articles = <<>>],
                [NoHistory EXCEPT !.last = "start", !.prevClean = h.clean])
        /\ UNCHANGED << env, articles, chunks >>

\* Lines 119-122 and 342-347: the head of the source loop, and the return of the
\* metrics once the loop is over (the async with closes the session).
NextSource(p) ==
    LET r == pl[p]
        h == gh[p]
    IN  /\ r.pc = "source"
        /\ IF r.srcIdx = Len(sources)
           THEN Step(p, Rollback([r EXCEPT !.pc = "done"]),
                        [h EXCEPT !.last = "return"])
           ELSE Step(p, [r EXCEPT !.pc = "fetch", !.srcIdx = @ + 1,
                                  !.metrics.sources_processed = @ + 1],
                        [h EXCEPT !.last = "source"])
        /\ UNCHANGED << env, articles, chunks >>

\* The ways step 1-2 of a source can end (lines 127-190).
FetchOutcomes(s) ==
    IF s.type = "web_scraper"
    THEN IF s.registered THEN {"ok", "scrape_error"} ELSE {"unknown_scraper"}
    ELSE {"ok", "fetch_error", "parse_error"}

\* OnSourceError with the source loop left on the first failure.
OnSourceError_Abort(r) ==
    [r EXCEPT !.pc = "done",
              !.metrics.errors = Append(@, << "source", r.srcIdx >>)]

\* Lines 131-135, 155-159, 165-169, 186-190: the error is appended and the
\* loop continues with the next source.
OnSourceError(r) ==
    [r EXCEPT !.pc = "source",
              !.metrics.errors = Append(@, << "source", r.srcIdx >>)]

\* Lines 124-190: scrape, or fetch and parse, the current source.
FetchSource(p) ==
    LET r == pl[p]
        h == gh[p]
        s == sources[r.srcIdx]
    IN  /\ r.pc = "fetch"
        /\ \E outcome \in FetchOutcomes(s) :
              IF outcome = "ok"
              THEN Step(p, [r EXCEPT !.pc = "article", !.parsed_articles = s.feed,
                                     !.metrics.articles_fetched = @ + Len(s.feed)],
                           [h EXCEPT !.last = "fetched",
                                     !.srcOutcome = Append(@, "ok")])
              ELSE Step(p, OnSourceError(r),
                           [h EXCEPT !.last = "source_error", !.clean = FALSE,
                                     !.srcOutcome = Append(@, "failed")])
        /\ UNCHANGED << env, articles, chunks >>

\* SkipExisting with the content test lost: no entry is ever skipped.
SkipExisting_Never(row) ==
    FALSE

\* Lines 202-205: an existing article that has content is skipped.
SkipExisting(row) ==
    row.exists /\ row.content # 0

\* Lines 193-219: the next entry; look the article up by URL, skip it, or take
\* the existing row, or create a new Article.
NextArticle(p) ==
    LET r == pl[p]
        h == gh[p]
    IN  /\ r.pc = "article"
        /\ IF r.parsed_articles = <<>>
           THEN Step(p, [r EXCEPT !.pc = "source", !.article = NoArticle],
                        [h EXCEPT !.last = "source_done"])
           ELSE LET u   == Head(r.parsed_articles)
                    row == ArticleView(p, u)
                    r1  == [r EXCEPT !.parsed_articles = Tail(@)]
                    h1  == [h EXCEPT !.m0 = r.metrics,
                                     !.extractFailedNew = @ \ {u}]
                IN  IF SkipExisting(row)
                    THEN Step(p, r1, [h EXCEPT !.last = "skip"])
                    ELSE IF row.exists
                    THEN Step(p, [r1 EXCEPT !.pc = "flush1",
                                            !.metrics.articles_updated = @ + 1,
                                            !.article = [NoArticle EXCEPT
                                                !.url = u,
                                                !.content = row.content,
                                                !.country_codes = row.country_codes,
                                                !.topic_tags = row.topic_tags,
                                                !.published_at = row.published_at]],
                                 [h1 EXCEPT !.last = "existing"])
                    ELSE Step(p, [r1 EXCEPT !.pc = "flush1",
                                            !.metrics.articles_new = @ + 1,
                                            !.article = [NoArticle EXCEPT
                                                !.url = u, !.isNew = TRUE,
                                                !.published_at = PublishedAt(u)]],
                                 [h1 EXCEPT !.last = "new"])
        /\ UNCHANGED << env, articles, chunks >>

\* Lines 329-334: the article's exception handler.
OnArticleError(r) ==
    Rollback([r EXCEPT !.pc = "article",
                       !.metrics.errors = Append(@, << "article", r.article.url >>)])

ArticleErrorHistory(r, h) ==
    [h EXCEPT !.last = "article_error", !.clean = FALSE,
              !.lostOther = @ \cup (DOMAIN r.tx \ {r.article.url})]

\* The rows of session r's transaction after its article object is flushed.
Flushed(r) ==
    LET a == r.article
    IN  (a.url :> ArticleRow(a.content, a.country_codes, a.topic_tags, a.published_at)) @@ r.tx

\* Line 221: db.flush() sends the INSERT of a new article (url is unique).
Flush1(p) ==
    LET r == pl[p]
        h == gh[p]
        u == r.article.url
    IN  /\ r.pc = "flush1"
        /\ \E ok \in BOOLEAN :
              IF ok
              THEN /\ r.article.isNew =>
                        ~ articles[u].exists /\ ~ LockedByOther(p, u)
                   /\ Step(p, [r EXCEPT !.pc = "extract",
                                        !.tx = IF r.article.isNew
                                               THEN Flushed(r) ELSE @],
                              [h EXCEPT !.last = "flush1"])
              ELSE Step(p, OnArticleError(r), ArticleErrorHistory(r, h))
        /\ UNCHANGED << env, articles, chunks >>

\* Lines 228-235: extract_article raises (the loop continues with no commit and
\* no rollback), or returns the text, which may be None.
Extract(p) ==
    LET r == pl[p]
        h == gh[p]
        u == r.article.url
    IN  /\ r.pc = "extract"
        /\ \E outcome \in {-1} \cup (0 .. MaxChunks) :
              IF outcome = -1
              THEN Step(p, [r EXCEPT !.pc = "article"],
                           [h EXCEPT !.last = "extract_error",
                                     !.extractFailedNew =
                                        IF r.article.isNew THEN @ \cup {u} ELSE @])
              ELSE Step(p, [r EXCEPT !.pc = "tag", !.article.content = outcome,
                                     !.metrics.articles_extracted = @ + 1],
                           [h EXCEPT !.last = "extracted"])
        /\ UNCHANGED << env, articles, chunks >>

\* Line 251: what CountryTagger.tag_article returns is assigned whole; it is
\* the tuple (country_codes, metadata) of country_tagger.py line 201.
country_results == "(codes, metadata)"

\* The ways the tagging step can end (lines 242-262): NESO is pinned to GB, so
\* for it only the topic tagger can raise.
TagOutcomes(s) ==
    IF s.name = "NESO" THEN {"ok", "topic_error"}
    ELSE {"ok", "country_error", "topic_error"}

\* Lines 239-262: country and topic tagging; a raise is logged and swallowed.
Tag(p) ==
    LET r == pl[p]
        h == gh[p]
        s == sources[r.srcIdx]
        cc == IF s.name = "NESO" THEN "GB" ELSE country_results
    IN  /\ r.pc = "tag"
        /\ \E outcome \in TagOutcomes(s) :
              Step(p,
                   [r EXCEPT !.pc = "flush2",
                             !.article.country_codes =
                                 IF outcome = "country_error" THEN @ ELSE cc,
                             !.article.topic_tags =
                                 IF outcome = "ok" THEN "tagged" ELSE @,
                             !.metrics.articles_tagged =
                                 IF outcome = "ok" THEN @ + 1 ELSE @],
                   [h EXCEPT !.last = IF outcome = "ok" THEN "tagged"
                                      ELSE "tag_error"])
        /\ UNCHANGED << env, articles, chunks >>

\* Line 264: db.flush() sends the UPDATE of the article row when a column
\* changed; it waits for a row another session wrote and did not commit.
Flush2(p) ==
    LET r == pl[p]
        h == gh[p]
        a == r.article
        u == a.url
        changed == ArticleView(p, u) #
                       ArticleRow(a.content, a.country_codes, a.topic_tags, a.published_at)
    IN  /\ r.pc = "flush2"
        /\ \E ok \in BOOLEAN :
              IF ok
              THEN /\ changed => ~ LockedByOther(p, u)
                   /\ Step(p, [r EXCEPT !.pc = IF a.content # 0 THEN "chunk"
                                               ELSE "commit",
                                        !.tx = IF changed THEN Flushed(r) ELSE @],
                              [h EXCEPT !.last = "flush2"])
              ELSE Step(p, OnArticleError(r), ArticleErrorHistory(r, h))
        /\ UNCHANGED << env, articles, chunks >>

\* ChunkObjects with the denormalised columns left unset.
ChunkObjects_NotDenormalized(a, e, w) ==
    { ChunkRow(a.url, i, e, w, "NULL", "NULL", "NULL") :
         i \in 0 .. (NChunks(a.content) - 1) }

\* Lines 286-297: the ArticleChunk objects of the article, chunk_index dense
\* from 0, the article's tags and date copied onto each.
ChunkObjects(a, e, w) ==
    { ChunkRow(a.url, i, e, w, a.country_codes, a.topic_tags, a.published_at) :
         i \in 0 .. (NChunks(a.content) - 1) }

\* Lines 267-299: mark the article's chunks deleted, then chunk the text.  A
\* raise of the chunker is swallowed after the deletes were marked.
Chunk(p) ==
    LET r == pl[p]
        h == gh[p]
        a == r.article
        existing == ChunkView(p, a.url)
        r1 == [r EXCEPT !.deleted = @ \cup (existing \cap chunks),
                        !.added = @ \ existing]
    IN  /\ r.pc = "chunk"
        /\ \E ok \in BOOLEAN :
              IF ok
              THEN Step(p, [r1 EXCEPT !.pc = "embed",
                                      !.article.n = NChunks(a.content),
                                      !.metrics.chunks_created =
                                          @ + NChunks(a.content)],
                           [h EXCEPT !.last = "chunked"])
              ELSE Step(p, [r1 EXCEPT !.pc = "commit"],
                           [h EXCEPT !.last = "chunk_error"])
        /\ UNCHANGED << env, articles, chunks >>

\* ChunksToSave with the chunks dropped when the embed call raised.
ChunksToSave_OnlyEmbedded(a, ok, w) ==
    IF ok THEN ChunkObjects(a, ok, w) ELSE {}

\* Lines 318-320: the chunk objects are added to the session whether or not
\* they were embedded.
ChunksToSave(a, ok, w) ==
    ChunkObjects(a, ok, w)

\* Lines 301-320: one embed call for all chunk texts; a raise is logged and the
\* chunks are saved without embeddings.
Embed(p) ==
    LET r == pl[p]
        h == gh[p]
        a == r.article
    IN  /\ r.pc = "embed"
        /\ \E ok \in BOOLEAN :
              Step(p, [r EXCEPT !.pc = "commit",
                                !.article.embedRaised = ~ ok,
                                !.added = @ \cup ChunksToSave(a, ok, p),
                                !.metrics.chunks_embedded =
                                    IF ok THEN @ + a.n ELSE @],
                      [h EXCEPT !.last = IF ok THEN "embedded" ELSE "embed_error"])
        /\ UNCHANGED << env, articles, chunks >>

\* The committed tables after session r commits.
CommittedArticles(r) ==
    [u \in URLs |-> IF u \in DOMAIN r.tx THEN r.tx[u] ELSE articles[u]]
CommittedChunks(r) ==
    (chunks \ r.deleted) \cup r.added

\* Line 327: db.commit() of everything the session holds.
Commit(p) ==
    LET r == pl[p]
        h == gh[p]
    IN  /\ r.pc = "commit"
        /\ \E ok \in BOOLEAN :
              IF ok
              THEN /\ articles' = CommittedArticles(r)
                   /\ chunks' = CommittedChunks(r)
                   /\ Step(p, Rollback([r EXCEPT !.pc = "article"]),
                              [h EXCEPT !.last = "commit",
                                        !.chunkOps = @ + Cardinality(r.deleted)
                                                       + Cardinality(r.added)])
              ELSE /\ Step(p, OnArticleError(r), ArticleErrorHistory(r, h))
                   /\ UNCHANGED << articles, chunks >>
        /\ UNCHANGED env

Pipeline(p) ==
    \/ StartRun(p)
    \/ NextSource(p)
    \/ FetchSource(p)
    \/ NextArticle(p)
    \/ Flush1(p)
    \/ Extract(p)
    \/ Tag(p)
    \/ Flush2(p)
    \/ Chunk(p)
    \/ Embed(p)
    \/ Commit(p)

Next == \E p \in Procs : Pipeline(p)

Spec == Init /\ [][Next]_vars

\* ------------------------------------------------------ process_articles_task

StoredChunks(u) == { c \in chunks : c.url = u }

\* Lines 32-38: the (id, content_text) of the articles that have content and
\* no chunk, as the task's session reads them.
ArticlesData ==
    LET want(u) == articles[u].exists /\ articles[u].content # 0
                       /\ StoredChunks(u) = {}
        item(u) == [url |-> u, content_text |-> articles[u].content]
    IN  (IF want("u1") THEN << item("u1") >> ELSE <<>>) \o
        (IF want("u2") THEN << item("u2") >> ELSE <<>>)

\* Lines 89-105 and 23-41: the endpoint starts a task when some article has no
\* chunk; the task reads the articles it will process.
AdminStart(t) ==
    /\ adm[t].pc = "idle"
    /\ \E u \in URLs : articles[u].exists /\ StoredChunks(u) = {}
    /\ adm' = [adm EXCEPT ![t] = [pc |-> "loop", articles_data |-> ArticlesData]]
    /\ UNCHANGED << sources, active, articles, chunks, pl, gh, services >>

\* Lines 46-62: the chunks of one article, each with its embedding; the
\* denormalised columns are not set.
AdminChunks(d, t) ==
    { ChunkRow(d.url, i, TRUE, t, "NULL", "NULL", "NULL") :
         i \in 0 .. (NChunks(d.content_text) - 1) }

\* Lines 43-75: chunk, embed and commit the next article read at the start; a
\* raise rolls back and the loop continues.
AdminProcess(t) ==
    /\ adm[t].pc = "loop"
    /\ IF adm[t].articles_data = <<>>
       THEN /\ adm' = [adm EXCEPT ![t].pc = "done"]
            /\ UNCHANGED chunks
       ELSE /\ adm' = [adm EXCEPT ![t].articles_data = Tail(@)]
            /\ \E ok \in BOOLEAN :
                  chunks' = IF ok
                            THEN chunks \cup AdminChunks(Head(adm[t].articles_data), t)
                            ELSE chunks
    /\ UNCHANGED << sources, active, articles, pl, gh, services >>

\* ------------------------------------------------------------- concurrency

OneFeed == << RssSource(<< "u1" >>) >>

\* The scheduled run of the worker and a run started through
\* /admin/run-pipeline work over one feed at the same time.
InitConc ==
    /\ sources = OneFeed
    /\ active = Procs
    /\ articles = [u \in URLs |-> NoRow]
    /\ chunks = {}
    /\ pl = [p \in Procs |-> IdleRun]
    /\ gh = [p \in Procs |-> NoHistory]
    /\ adm = [t \in Tasks |-> IdleTask]
    /\ article_rows = << >>
    /\ upserts = << >>
    /\ article_chunks = << >>
    /\ searched = NoSearch
    /\ invocation = NoCall

SpecConc == InitConc /\ [][Next]_vars

\* The worker's runs over one feed, with two admin tasks beside them.
InitAdmin ==
    /\ sources = OneFeed
    /\ active = {"worker"}
    /\ articles = [u \in URLs |-> NoRow]
    /\ chunks = {}
    /\ pl = [p \in Procs |-> IdleRun]
    /\ gh = [p \in Procs |-> NoHistory]
    /\ adm = [t \in Tasks |-> IdleTask]
    /\ article_rows = << >>
    /\ upserts = << >>
    /\ article_chunks = << >>
    /\ searched = NoSearch
    /\ invocation = NoCall

NextAdmin ==
    \/ \E p \in Procs : Pipeline(p)
    \/ \E t \in Tasks : AdminStart(t) \/ AdminProcess(t)

SpecAdmin == InitAdmin /\ [][NextAdmin]_vars

\* ------------------------------------------- IngestionService.upsert_article

\* Text is a sequence of characters.
\* RSSEntry (rss_parser.py).
RSSEntry(title, url, published_at, summary) ==
    [ title |-> title, url |-> url, published_at |-> published_at,
      summary |-> summary ]

\* The entries the feeds carry: two URLs; a summary that is missing, empty or
\* a text; and two entries of one URL whose titles and summaries differ and
\* whose "title|url|summary" texts are the same.
RSSEntries ==
    { RSSEntry(<< "a" >>, << "u" >>, "d1", None),
      RSSEntry(<< "a" >>, << "u" >>, "d1", Some(<< >>)),
      RSSEntry(<< "a" >>, << "u" >>, "d2", Some(<< "c" >>)),
      RSSEntry(<< "a" >>, << "u" >>, "d1", Some(<< "b", "|", "u", "|", "c" >>)),
      RSSEntry(<< "a", "|", "u", "|", "b" >>, << "u" >>, "d2", Some(<< "c" >>)),
      RSSEntry(<< "a" >>, << "v" >>, "d1", None),
      RSSEntry(<< "a" >>, << "v" >>, "d1", Some(<< "c" >>)) }

\* RSSParser.compute_content_hash: SHA-256 of "title|url|summary", a missing or
\* empty summary written as the empty text.  SHA-256 is collision free for the
\* purposes of the program, so a digest is written as the text it digests.
compute_content_hash(title, url, summary) ==
    Some(title \o << "|" >> \o url \o << "|" >> \o
         (IF summary.isNone \/ summary.value = << >> THEN << >> ELSE summary.value))

\* A row of the articles table; pending: added to the session and not yet
\* flushed to the database.
StoredArticle(title, url, published_at, raw_summary, hash, pending) ==
    [ title |-> title, url |-> url, published_at |-> published_at,
      raw_summary |-> raw_summary, hash |-> hash, pending |-> pending ]

\* The same query in a session that does not flush its pending rows first.
SelectByUrl_NoAutoflush(rows, url) ==
    { i \in DOMAIN rows : rows[i].url = url /\ ~ rows[i].pending }

\* Lines 96-99: the rows a SELECT by URL finds; the session flushes its pending
\* rows before the query, so a row added and not yet committed is found.
SelectByUrl(rows, url) == { i \in DOMAIN rows : rows[i].url = url }

\* flush: the pending rows are sent to the database.
Flush(rows) == [ i \in DOMAIN rows |-> [rows[i] EXCEPT !.pending = FALSE] ]

\* The outcome of upsert_article (lines 88-131): the tuple it returns and the
\* rows of the session after it.
upsert_article(rows, entry) ==
    LET content_hash == compute_content_hash(entry.title, entry.url, entry.summary)
        found == SelectByUrl(rows, entry.url)
        flushed == Flush(rows)
    IN  IF found # {}
        THEN LET i == CHOOSE j \in found : TRUE
             IN  IF rows[i].hash = content_hash
                 THEN [ inserted |-> FALSE, updated |-> FALSE, rows |-> flushed ]
                 ELSE [ inserted |-> FALSE, updated |-> TRUE,
                        rows |-> [ flushed EXCEPT
                                     ![i].title = entry.title,
                                     ![i].raw_summary = entry.summary,
                                     ![i].published_at = entry.published_at,
                                     ![i].hash = content_hash ] ]
        ELSE [ inserted |-> TRUE, updated |-> FALSE,
               rows |-> Append(flushed,
                               StoredArticle(entry.title, entry.url,
                                             entry.published_at, entry.summary,
                                             content_hash, TRUE)) ]

\* A call of upsert_article with an entry of a feed.
Upsert ==
    \E entry \in RSSEntries :
       LET out == upsert_article(article_rows, entry)
           call == [ entry |-> entry, before |-> article_rows,
                     inserted |-> out.inserted, updated |-> out.updated ]
       IN  /\ article_rows' = out.rows
           /\ upserts' = IF upserts = << >> THEN << call >>
                         ELSE << upserts[Len(upserts)], call >>
    /\ UNCHANGED << ingestVars, searchVars, invocation >>

\* The caller commits the session (ingestion_service.py line 284).
CommitSession ==
    /\ \E i \in DOMAIN article_rows : article_rows[i].pending
    /\ article_rows' = Flush(article_rows)
    /\ UNCHANGED << ingestVars, searchVars, upserts, invocation >>

\* The tables upsert_article can find: empty, or holding an article that the
\* pipeline stored (its hash is the digest of the URL alone, pipeline.py lines
\* 142-152 and 208-217) or one that ingest_source stored (no hash,
\* ingestion_service.py lines 192-198).
StoredBefore ==
    { << >>,
      << StoredArticle(<< "a" >>, << "u" >>, "d1", None, Some(<< "u" >>), FALSE) >>,
      << StoredArticle(<< "a" >>, << "u" >>, "d1", Some(<< "c" >>), None, FALSE) >> }

InitUpsert ==
    /\ sources = << >>
    /\ active = {}
    /\ articles = [u \in URLs |-> NoRow]
    /\ chunks = {}
    /\ pl = [p \in Procs |-> IdleRun]
    /\ gh = [p \in Procs |-> NoHistory]
    /\ adm = [t \in Tasks |-> IdleTask]
    /\ article_rows \in StoredBefore
    /\ upserts = << >>
    /\ article_chunks = << >>
    /\ searched = NoSearch
    /\ invocation = NoCall

NextUpsert == Upsert \/ CommitSession

SpecUpsert == InitUpsert /\ [][NextUpsert]_vars

\* ------------------------------------------------ VectorSearchService.search

\* The most rows of article_chunks, and the largest k of a search.
MaxStore == 3

MaxK == 2

\* A row of article_chunks (models.py lines 72-94): the columns the search
\* reads.  The id of a row is its position in the table.
ArticleChunk(embedding, country_codes, topic_tags, published_at) ==
    [ embedding |-> embedding, country_codes |-> country_codes,
      topic_tags |-> topic_tags, published_at |-> published_at ]

\* The rows the writers store: embedded or not, tagged or (a chunk of an admin
\* task) with no denormalised column, dated or not; two embeddings point the
\* same way, and a table can hold a row twice, under two ids.
StoredChunkRows ==
    { ArticleChunk(Some(<< 1, 0 >>), Some({"US"}), Some({"t1"}), Some(1)),
      ArticleChunk(Some(<< 2, 0 >>), Some({"GB"}), Some({"t1"}), Some(3)),
      ArticleChunk(Some(<< 1, 1 >>), Some({"US", "GB"}), Some({"t2"}), Some(2)),
      ArticleChunk(Some(<< 0 - 1, 1 >>), None, None, None),
      ArticleChunk(None, Some({"US"}), Some({"t1"}), Some(2)) }

\* The tables of at most MaxStore rows.
ChunkTables == UNION { [1 .. n -> StoredChunkRows] : n \in 0 .. MaxStore }

QueryEmbeddings == { << 1, 0 >>, << 1, 2 >> }

\* SearchFilters (vector_search.py lines 15-37).
SearchFilters(countries, topics, date_from, date_to) ==
    Some([ countries |-> countries, topics |-> topics,
           date_from |-> date_from, date_to |-> date_to ])

\* The filters argument of a call: no filters object, no filter set, each
\* filter alone (the country list empty, of one code, of two codes), and all
\* of them together.
FilterArguments ==
    { None,
      SearchFilters(None, None, None, None),
      SearchFilters(Some({}), None, None, None),
      SearchFilters(Some({"US"}), None, None, None),
      SearchFilters(Some({"GB", "FR"}), None, None, None),
      SearchFilters(None, Some({"t1"}), None, None),
      SearchFilters(None, None, Some(2), None),
      SearchFilters(None, None, None, Some(2)),
      SearchFilters(None, None, Some(2), Some(2)),
      SearchFilters(Some({"US"}), Some({"t1"}), Some(1), Some(2)) }

Dot(a, b) == a[1] * b[1] + a[2] * b[2]

\* cosine_distance(a, q) <= cosine_distance(b, q), the distance being
\* 1 - a.q / (|a| |q|) (line 160): compared without the square roots.
CosineDistanceLE(a, b, q) ==
    LET da == Dot(a, q)
        db == Dot(b, q)
    IN  IF da >= 0 /\ db >= 0
        THEN da * da * Dot(b, b) >= db * db * Dot(a, a)
        ELSE IF da < 0 /\ db < 0
        THEN da * da * Dot(b, b) <= db * db * Dot(a, a)
        ELSE da >= 0

\* Python's truth value of an Optional list: None and [] are false.
Truthy(list) == ~ list.isNone /\ list.value # {}

\* The array operator &&: a NULL column overlaps nothing.
Overlaps(column, list) == ~ column.isNone /\ column.value \cap list # {}

\* Lines 126-147: the conditions the filters add; a comparison with a NULL
\* published_at is not true.
filter_conditions(row, filters) ==
    IF filters.isNone THEN TRUE
    ELSE LET f == filters.value
         IN  /\ Truthy(f.countries) => Overlaps(row.country_codes, f.countries.value)
             /\ Truthy(f.topics) => Overlaps(row.topic_tags, f.topics.value)
             /\ ~ f.date_from.isNone =>
                   ~ row.published_at.isNone
                      /\ row.published_at.value >= f.date_from.value
             /\ ~ f.date_to.isNone =>
                   ~ row.published_at.isNone
                      /\ row.published_at.value <= f.date_to.value

\* The WHERE clause with the test of the embedding left out.
SearchWhere_AnyEmbedding(row, filters) == filter_conditions(row, filters)

\* Lines 165-171: the WHERE clause of the statement.
SearchWhere(row, filters) ==
    ~ row.embedding.isNone /\ filter_conditions(row, filters)

\* An order that takes any row next.
Nearest_Any(table, ids, q) == ids

\* The rows of ids no row of ids is nearer to the query than.
Nearest(table, ids, q) ==
    { i \in ids : \A j \in ids :
         CosineDistanceLE(table[i].embedding.value, table[j].embedding.value, q) }

\* Line 174, ORDER BY distance: the orders the database can return the
\* selected rows in, nearest first; rows at one distance come in any order.
RECURSIVE OrderByDistance(_, _, _)
OrderByDistance(table, ids, q) ==
    IF ids = {} THEN { << >> }
    ELSE UNION { { << i >> \o rest :
                      rest \in OrderByDistance(table, ids \ {i}, q) } :
                 i \in Nearest(table, ids, q) }

\* Line 174, LIMIT k.
Limit(s, k) == SubSeq(s, 1, IF k < Len(s) THEN k ELSE Len(s))

\* Lines 100-199: the lists of chunk ids search can return.
search(table, query_embedding, filters, k) ==
    LET selected == { i \in DOMAIN table : SearchWhere(table[i], filters) }
    IN  { Limit(s, k) : s \in OrderByDistance(table, selected, query_embedding) }

\* A call of search that has not returned.
SearchCall(q, f, k) ==
    [ called |-> FALSE, query_embedding |-> q, filters |-> f, k |-> k,
      results |-> << >> ]

\* The call returns.
Search ==
    /\ ~ searched.called
    /\ \E results \in search(article_chunks, searched.query_embedding,
                             searched.filters, searched.k) :
          searched' = [ searched EXCEPT !.called = TRUE, !.results = results ]
    /\ UNCHANGED << ingestVars, upsertVars, article_chunks, invocation >>

\* search is called with a query, filters and k over a table.
InitSearch ==
    /\ sources = << >>
    /\ active = {}
    /\ articles = [u \in URLs |-> NoRow]
    /\ chunks = {}
    /\ pl = [p \in Procs |-> IdleRun]
    /\ gh = [p \in Procs |-> NoHistory]
    /\ adm = [t \in Tasks |-> IdleTask]
    /\ article_rows = << >>
    /\ upserts = << >>
    /\ article_chunks \in ChunkTables
    /\ searched \in { SearchCall(q, f, k) :
                         q \in QueryEmbeddings, f \in FilterArguments,
                         k \in 0 .. MaxK }
    /\ invocation = NoCall

NextSearch == Search

SpecSearch == InitSearch /\ [][NextSearch]_vars

\* ----------------------------------------------------------- ChatService.chat

\* The most articles of a store, and the longest list a function is given.
MaxArticles == 2

MaxLen == 3

\* No ingestion runs and no other service is called.
NoIngestion ==
    /\ sources = << >>
    /\ active = {}
    /\ articles = [u \in URLs |-> NoRow]
    /\ chunks = {}
    /\ pl = [p \in Procs |-> IdleRun]
    /\ gh = [p \in Procs |-> NoHistory]
    /\ adm = [t \in Tasks |-> IdleTask]
    /\ article_rows = << >>
    /\ upserts = << >>
    /\ article_chunks = << >>
    /\ searched = NoSearch

\* An article with its chunks (models.py lines 36-94): the title as its
\* lower-case words, and for each chunk its similarity to the question, in
\* hundredths, None for a chunk with no embedding.  The denormalised columns
\* of a chunk are those of its article.  The id of an article is its position
\* in the store.
ChatArticle(title, country_codes, topic_tags, published_at, similarities) ==
    [ title |-> title, country_codes |-> country_codes,
      topic_tags |-> topic_tags, published_at |-> published_at,
      similarities |-> similarities ]

StoredArticles ==
    { ChatArticle(<< "germany", "solar", "auction" >>, Some({"DE"}),
                  Some({"solar"}), Some(3), << Some(80), Some(60) >>),
      ChatArticle(<< "german", "wind" >>, Some({"DE"}), Some({"wind"}),
                  Some(1), << Some(64) >>),
      ChatArticle(<< "france", "gas" >>, Some({"FR"}), Some({"gas"}),
                  Some(2), << Some(79), Some(49) >>),
      ChatArticle(<< "solar", "auction" >>, None, None, None, << None >>),
      ChatArticle(<< "wind" >>, Some({"GB", "DE"}), Some({"wind"}), Some(2),
                  << Some(65) >>),
      ChatArticle(<< "france", "solar" >>, Some({"FR"}), Some({"solar"}),
                  Some(3), << Some(80), Some(59) >>) }

ArticleStores == UNION { [1 .. n -> StoredArticles] : n \in 0 .. MaxArticles }

\* The questions, as their lower-case words without punctuation.
Questions ==
    { << "what", "about", "germany" >>,
      << "solar", "auction" >>,
      << "wind", "gas" >>,
      << "france", "solar" >> }

\* The filters of the caller (api/chat.py lines 54-62).
ChatFilters ==
    { None,
      SearchFilters(Some({"FR"}), None, None, None),
      SearchFilters(None, Some({"solar"}), None, None),
      SearchFilters(Some({"GB"}), Some({"wind"}), Some(2), None),
      SearchFilters(None, None, None, Some(1)) }

\* The similarities of retrieved chunks, in hundredths.
Similarities == { 49, 50, 59, 60, 64, 65, 79, 80, 100 }

\* len(word).
WordLength ==
    [ w \in { "what", "about", "germany", "german", "france", "solar", "wind",
              "auction", "gas" } |->
        CASE w = "gas" -> 3
          [] w \in { "what", "wind" } -> 4
          [] w \in { "about", "solar" } -> 5
          [] w \in { "german", "france" } -> 6
          [] OTHER -> 7 ]

\* The string test "part in word" and its two one-sided forms, for these
\* words: german is the start of germany.
StartsWith(word, part) == part = word \/ (part = "german" /\ word = "germany")

EndsWith(word, part) == part = word

Within(word, part) == StartsWith(word, part)

\* The string test "phrase in text" for lists of words joined by one space.
PhraseIn(text, phrase) ==
    LET n == Len(phrase)
    IN  \E i \in 0 .. Len(text) - n :
           IF n = 1 THEN Within(text[i + 1], phrase[1])
           ELSE /\ EndsWith(text[i + 1], phrase[1])
                /\ StartsWith(text[i + n], phrase[n])
                /\ \A j \in 2 .. n - 1 : text[i + j] = phrase[j]

\* ORDER BY: the orders the database can return the rows of ids in, lowest
\* rank first; rows of one rank come in any order.
RECURSIVE OrderBy(_, _)
OrderBy(ids, rank) ==
    IF ids = {} THEN { << >> }
    ELSE UNION { { << i >> \o rest : rest \in OrderBy(ids \ {i}, rank) } :
                 i \in { i \in ids : \A j \in ids : rank[i] <= rank[j] } }

\* The chunks of a store: chunk j of article a.
ChunkIds(db) ==
    UNION { { << a, j >> : j \in DOMAIN db[a].similarities } : a \in DOMAIN db }

\* VectorSearchService.search over the chunks of a store, by similarity: the
\* WHERE clause, ORDER BY distance (1 - similarity) and LIMIT k.
search_store(db, filters, k) ==
    LET selected == { c \in ChunkIds(db) :
                        /\ ~ db[c[1]].similarities[c[2]].isNone
                        /\ filter_conditions(db[c[1]], filters) }
        distance == [ c \in selected |->
                        100 - db[c[1]].similarities[c[2]].value ]
    IN  { Limit(s, k) : s \in OrderBy(selected, distance) }

\* ChatService.__init__ (lines 42-43), in hundredths.
min_similarity_threshold == 50

low_confidence_threshold == 65

\* search_with_threshold: the results of search at least min_similarity
\* similar, in the order of search.
search_with_threshold(db, filters, k, min_similarity) ==
    { SelectSeq(results,
                LAMBDA c : db[c[1]].similarities[c[2]].value >= min_similarity) :
         results \in search_store(db, filters, k) }

RECURSIVE SumOf(_)
SumOf(s) == IF s = << >> THEN 0 ELSE Head(s) + SumOf(Tail(s))

MaxOf(s) == CHOOSE x \in { s[i] : i \in DOMAIN s } :
               \A i \in DOMAIN s : s[i] <= x

\* The test of the grade high with the average left out.
IsHigh_MaxOnly(similarities) == MaxOf(similarities) >= 80

\* Line 152: max_similarity >= 0.8 and avg_similarity >= 0.7, the average
\* being sum / len.
IsHigh(similarities) ==
    /\ MaxOf(similarities) >= 80
    /\ SumOf(similarities) >= 70 * Len(similarities)

\* _assess_confidence over the similarities of the chunks.
assess_confidence(similarities) ==
    IF similarities = << >> THEN "low"
    ELSE IF IsHigh(similarities) THEN "high"
    ELSE IF MaxOf(similarities) >= low_confidence_threshold THEN "medium"
    ELSE "low"

\* country_map (lines 172-208), the first entries in the order of the dict.
country_map ==
    << << "germany", "DE" >>, << "german", "DE" >>,
       << "france", "FR" >>, << "french", "FR" >> >>

\* _extract_country_from_question: the code of the first name of country_map
\* that is in the question.
extract_country_from_question(question) ==
    LET found == { n \in DOMAIN country_map :
                     PhraseIn(question, << country_map[n][1] >>) }
    IN  IF found = {} THEN None
        ELSE Some(country_map[CHOOSE n \in found : \A m \in found : n <= m][2])

\* The limit of the country search (line 352), the number of its articles that
\* are cited (line 357), the default limit of the keyword search (line 245).
CountryLimit == 10

CitedCountryArticles == 5

KeywordLimit == 5

\* _search_articles_by_country: the articles whose country_codes contain the
\* code, newest first; PostgreSQL puts a NULL published_at first in a
\* descending order.
search_articles_by_country(db, country_code, limit) ==
    LET selected == { a \in DOMAIN db :
                        /\ ~ db[a].country_codes.isNone
                        /\ country_code \in db[a].country_codes.value }
        rank == [ a \in selected |->
                    IF db[a].published_at.isNone THEN 0 - 1000
                    ELSE 0 - db[a].published_at.value ]
    IN  { Limit(s, limit) : s \in OrderBy(selected, rank) }

stopwords == { "what", "about" }

\* Lines 266-267.
keywords(question) ==
    SelectSeq(question, LAMBDA w : w \notin stopwords /\ WordLength[w] > 3)

\* Lines 273-279: the phrase of all keywords, then each pair of neighbours.
phrases(question) ==
    LET kw == keywords(question)
    IN  IF Len(kw) >= 2
        THEN << kw >> \o [ i \in 1 .. Len(kw) - 1 |-> << kw[i], kw[i + 1] >> ]
        ELSE << >>

\* Lines 282-292: the title patterns, the phrases and then each keyword longer
\* than 5.
conditions(question) ==
    phrases(question) \o
    [ i \in DOMAIN SelectSeq(keywords(question), LAMBDA w : WordLength[w] > 5) |->
        << SelectSeq(keywords(question), LAMBDA w : WordLength[w] > 5)[i] >> ]

\* _keyword_search_articles: the articles whose title matches a pattern,
\* ordered by the first phrase the title matches, 999 for none.
keyword_search_articles(db, question, limit) ==
    IF keywords(question) = << >> \/ conditions(question) = << >> THEN { << >> }
    ELSE LET ph == phrases(question)
             selected == { a \in DOMAIN db :
                             \E i \in DOMAIN conditions(question) :
                                PhraseIn(db[a].title, conditions(question)[i]) }
             rank == [ a \in selected |->
                         LET hits == { i \in DOMAIN ph : PhraseIn(db[a].title, ph[i]) }
                         IN  IF hits = {} THEN 999
                             ELSE (CHOOSE i \in hits : \A j \in hits : i <= j) - 1 ]
         IN  { Limit(s, limit) : s \in OrderBy(selected, rank) }

\* date.isoformat(): the text of a date.
isoformat(d) == << "iso", d >>

\* _serialize_filters: the filters the response reports; None stands for a
\* key that is not in the dict.
serialize_filters(filters) ==
    IF filters.isNone
    THEN [ countries |-> None, topics |-> None, date_from |-> None,
           date_to |-> None ]
    ELSE LET f == filters.value
         IN  [ countries |-> IF Truthy(f.countries) THEN f.countries ELSE None,
               topics |-> IF Truthy(f.topics) THEN f.topics ELSE None,
               date_from |-> IF f.date_from.isNone THEN None
                             ELSE Some(isoformat(f.date_from.value)),
               date_to |-> IF f.date_to.isNone THEN None
                           ELSE Some(isoformat(f.date_to.value)) ]

\* IsSeen with the test of line 122 lost: no article counts as seen.
IsSeen_Never(article_id, seen_articles) ==
    FALSE

\* Line 122: the article of the chunk was cited already.
IsSeen(article_id, seen_articles) ==
    article_id \in seen_articles

\* _extract_citations: the articles of the chunks, each once, in the order of
\* the chunks.
RECURSIVE extract_citations(_, _)
extract_citations(chunk_ids, seen_articles) ==
    IF chunk_ids = << >> THEN << >>
    ELSE IF IsSeen(Head(chunk_ids)[1], seen_articles)
    THEN extract_citations(Tail(chunk_ids), seen_articles)
    ELSE << Head(chunk_ids)[1] >> \o
         extract_citations(Tail(chunk_ids),
                           seen_articles \cup { Head(chunk_ids)[1] })

\* Lines 129-130 of the same loop: the chunk each citation is made from, whose
\* similarity is the similarity of the citation.
RECURSIVE citation_chunks(_, _)
citation_chunks(chunk_ids, seen_articles) ==
    IF chunk_ids = << >> THEN << >>
    ELSE IF IsSeen(Head(chunk_ids)[1], seen_articles)
    THEN citation_chunks(Tail(chunk_ids), seen_articles)
    ELSE << Head(chunk_ids) >> \o
         citation_chunks(Tail(chunk_ids),
                         seen_articles \cup { Head(chunk_ids)[1] })

\* ChatResponse, with the stage that produced it, the similarities of the
\* retrieved chunks and the filters search_with_threshold was called with.
\* citations holds the id of each Citation and similarity its similarity, in
\* hundredths.
ChatResponse(stage, citations, similarity, confidence, filters, retrieved, search_filters) ==
    [ raised |-> FALSE, stage |-> stage, citations |-> citations,
      similarity |-> similarity,
      confidence |-> confidence, filters_applied |-> serialize_filters(filters),
      retrieved |-> retrieved, search_filters |-> search_filters ]

\* chat_provider.generate raised: chat raises.
ChatRaised(stage, retrieved, search_filters) ==
    [ raised |-> TRUE, stage |-> stage, citations |-> << >>,
      similarity |-> << >>, confidence |-> "none", filters_applied |-> serialize_filters(None),
      retrieved |-> retrieved, search_filters |-> search_filters ]

\* chat after the retrieval of chunks (lines 342-527).
chat_with(db, question, filters, chunk_ids) ==
    LET retrieved == [ i \in DOMAIN chunk_ids |->
                         db[chunk_ids[i][1]].similarities[chunk_ids[i][2]].value ]
        confidence == assess_confidence(retrieved)
        country_code == extract_country_from_question(question)
        country_articles ==
            IF country_code.isNone THEN { << >> }
            ELSE search_articles_by_country(db, country_code.value, CountryLimit)
        keyword_articles == keyword_search_articles(db, question, KeywordLimit)
        SimilarityOf(ids) ==
            [ i \in DOMAIN ids |-> db[ids[i][1]].similarities[ids[i][2]].value ]
        Zeros(found) == [ i \in DOMAIN found |-> 0 ]
        Country(found) ==
            { ChatResponse("country", Limit(found, CitedCountryArticles),
                           Zeros(Limit(found, CitedCountryArticles)),
                           "medium", filters, retrieved, filters),
              ChatRaised("country", retrieved, filters) }
        Keyword(found) ==
            IF found # << >>
            THEN { ChatResponse("keyword", found, Zeros(found), "medium", filters,
                                retrieved, filters),
                   ChatRaised("keyword", retrieved, filters) }
            ELSE { ChatResponse("general", << >>, << >>, "low", filters,
                                retrieved, filters),
                   ChatRaised("general", retrieved, filters) }
    IN  IF chunk_ids = << >> \/ confidence = "low"
        THEN UNION { IF found # << >> THEN Country(found)
                     ELSE UNION { Keyword(k) : k \in keyword_articles } :
                     found \in country_articles }
        ELSE { ChatResponse("vector", extract_citations(chunk_ids, {}),
                            SimilarityOf(citation_chunks(chunk_ids, {})),
                            confidence, filters, retrieved, filters),
               ChatRaised("vector", retrieved, filters) }

\* chat (lines 314-527): the responses a call can return.
chat(db, question, filters, k) ==
    UNION { chat_with(db, question, filters, chunk_ids) :
              chunk_ids \in search_with_threshold(db, filters, k,
                                                  min_similarity_threshold) }

\* A call of chat, and a call of _assess_confidence, that has not returned.
ChatCall(db, question, filters, k) ==
    [ fn |-> "chat", returned |-> FALSE, db |-> db, question |-> question,
      filters |-> filters, k |-> k ]

AssessCall(similarities) ==
    [ fn |-> "_assess_confidence", returned |-> FALSE,
      similarities |-> similarities ]

\* The call of chat returns.
Chat ==
    /\ invocation.fn = "chat" /\ ~ invocation.returned
    /\ \E response \in chat(invocation.db, invocation.question,
                            invocation.filters, invocation.k) :
          invocation' = [ fn |-> "chat", returned |-> TRUE,
                          db |-> invocation.db,
                          question |-> invocation.question,
                          filters |-> invocation.filters, k |-> invocation.k,
                          response |-> response ]
    /\ UNCHANGED << ingestVars, upsertVars, searchVars >>

\* The call of _assess_confidence returns.
AssessConfidence ==
    /\ invocation.fn = "_assess_confidence" /\ ~ invocation.returned
    /\ invocation' = [ fn |-> "_assess_confidence", returned |-> TRUE,
                       similarities |-> invocation.similarities,
                       result |-> assess_confidence(invocation.similarities) ]
    /\ UNCHANGED << ingestVars, upsertVars, searchVars >>

\* chat is called with a question, filters and k over a store, or
\* _assess_confidence with a list of similarities.
InitChat ==
    /\ NoIngestion
    /\ invocation \in
         { ChatCall(db, q, f, k) :
              db \in ArticleStores, q \in Questions, f \in ChatFilters,
              k \in 1 .. MaxK }
         \cup { AssessCall(s) :
                  s \in UNION { [1 .. n -> Similarities] : n \in 0 .. MaxLen } }

NextChat == Chat \/ AssessConfidence

SpecChat == InitChat /\ [][NextChat]_vars

\* ------------------------------------------------------- RSSFetcher.fetch_feed

\* stop_after_attempt(3) (fetcher.py line 44).
stop_after_attempt == 3

\* What the server does with a GET: a body with a success status, a
\* connection that fails, a timeout, a 5xx or a 4xx status.
ServerResponses == { "ok", "io_error", "timeout", "http_5xx", "http_4xx" }

\* What the server does with each of the attempts the fetcher could make.
ServerPlans == [1 .. stop_after_attempt -> ServerResponses]

\* Lines 67-69: the exception client.get or raise_for_status raises.
HttpxException(response) ==
    CASE response = "io_error" -> "ConnectError"
      [] response = "timeout" -> "TimeoutException"
      [] OTHER -> "HTTPStatusError"

\* The subclasses of httpx.HTTPError, httpx.TimeoutException among them.
HTTPError == { "HTTPError", "ConnectError", "TimeoutException", "HTTPStatusError" }

\* Lines 61-78, the body of fetch_feed for attempt n: the text of the
\* response, or FeedFetchError from every exception.
fetch_feed_once(response, n) ==
    IF response = "ok"
    THEN [ raised |-> FALSE, exception |-> "none", cause |-> "none",
           text |-> << "body", n >> ]
    ELSE [ raised |-> TRUE, exception |-> "FeedFetchError",
           cause |-> HttpxException(response), text |-> << >> ]

\* Line 46: retry_if_exception_type((httpx.HTTPError, httpx.TimeoutException)).
retry_if_exception_type(exception) == exception \in HTTPError

\* Lines 43-47, the retry decorator from attempt n on: it calls the body
\* again while the body raises an exception of line 46 and attempts are left,
\* raises RetryError when none is left, and lets any other exception through.
RECURSIVE fetch_feed(_, _)
fetch_feed(plan, n) ==
    LET outcome == fetch_feed_once(plan[n], n)
    IN  IF ~ outcome.raised
        THEN [ attempts |-> n, raised |-> FALSE, exception |-> "none",
               text |-> outcome.text ]
        ELSE IF ~ retry_if_exception_type(outcome.exception)
        THEN [ attempts |-> n, raised |-> TRUE,
               exception |-> outcome.exception, text |-> << >> ]
        ELSE IF n >= stop_after_attempt
        THEN [ attempts |-> n, raised |-> TRUE, exception |-> "RetryError",
               text |-> << >> ]
        ELSE fetch_feed(plan, n + 1)

FeedURLs == { "feed1", "feed2" }

\* A call of fetch_feed that has not returned.
FetchCall(url, plan) ==
    [ fn |-> "fetch_feed", returned |-> FALSE, url |-> url, plan |-> plan ]

\* The call returns or raises.
FetchFeed ==
    /\ invocation.fn = "fetch_feed" /\ ~ invocation.returned
    /\ invocation' = [ fn |-> "fetch_feed", returned |-> TRUE,
                       url |-> invocation.url, plan |-> invocation.plan,
                       result |-> fetch_feed(invocation.plan, 1) ]
    /\ UNCHANGED << ingestVars, upsertVars, searchVars >>

InitFetch ==
    /\ NoIngestion
    /\ invocation \in { FetchCall(url, plan) :
                          url \in FeedURLs, plan \in ServerPlans }

NextFetch == FetchFeed

SpecFetch == InitFetch /\ [][NextFetch]_vars

\* ------------------------------------------------------ RSSParser.parse_feed

\* str.strip() of the texts of a feed.
Strip ==
    [ s \in { "", " ", "t1", " t1 ", "t2", "u1", " u1 ", "u2", "s1", " s1 " } |->
        CASE s \in { "", " " } -> ""
          [] s \in { "t1", " t1 " } -> "t1"
          [] s \in { "u1", " u1 " } -> "u1"
          [] s \in { "s1", " s1 " } -> "s1"
          [] OTHER -> s ]

\* An entry of feedparser: the keys title, link, summary and description,
\* None for a key the entry does not have.
FeedEntry(title, link, summary, description) ==
    [ title |-> title, link |-> link, summary |-> summary,
      description |-> description ]

FeedEntries ==
    { FeedEntry(Some(" t1 "), Some(" u1 "), Some(" s1 "), None),
      FeedEntry(Some("t2"), Some("u2"), None, Some("s1")),
      FeedEntry(Some("t1"), Some("u2"), Some(" "), None),
      FeedEntry(Some(""), Some("u1"), None, None),
      FeedEntry(Some("t1"), Some(" "), Some("s1"), None),
      FeedEntry(None, None, None, None) }

\* feedparser.parse(feed_content): bozo is set for a document that is not
\* well formed, which can still have entries.
ParsedFeeds ==
    { [ bozo |-> bozo, entries |-> entries ] :
         bozo \in BOOLEAN,
         entries \in UNION { [1 .. n -> FeedEntries] : n \in 0 .. MaxLen } }

\* dict.get(key, default).
Get(field, default) == IF field.isNone THEN default ELSE field.value

\* Line 97 with the title read only: the entry is kept for its title.
KeepEntry_TitleOnly(title, url) == title # ""

\* Line 97: the entry is kept unless not title or not url.
KeepEntry(title, url) == title # "" /\ url # ""

\* Lines 94-109: the RSSEntry of a feedparser entry that is kept.
ParsedEntry(entry) ==
    LET summary == Strip[Get(entry.summary, Get(entry.description, ""))]
    IN  [ title |-> Strip[Get(entry.title, "")],
          url |-> Strip[Get(entry.link, "")],
          summary |-> IF summary = "" THEN None ELSE Some(summary) ]

\* Lines 91-113: the loop over parsed.entries.
RECURSIVE ParseEntries(_)
ParseEntries(entries) ==
    IF entries = << >> THEN << >>
    ELSE LET title == Strip[Get(Head(entries).title, "")]
             url == Strip[Get(Head(entries).link, "")]
         IN  IF KeepEntry(title, url)
             THEN << ParsedEntry(Head(entries)) >> \o ParseEntries(Tail(entries))
             ELSE ParseEntries(Tail(entries))

\* parse_feed (lines 73-115) of the document feedparser parsed.
parse_feed(parsed) ==
    IF parsed.bozo /\ parsed.entries = << >>
    THEN [ raised |-> TRUE, entries |-> << >> ]
    ELSE [ raised |-> FALSE, entries |-> ParseEntries(parsed.entries) ]

\* A call of parse_feed that has not returned.
ParseCall(parsed) ==
    [ fn |-> "parse_feed", returned |-> FALSE, parsed |-> parsed ]

\* The call returns or raises.
ParseFeed ==
    /\ invocation.fn = "parse_feed" /\ ~ invocation.returned
    /\ invocation' = [ fn |-> "parse_feed", returned |-> TRUE,
                       parsed |-> invocation.parsed,
                       result |-> parse_feed(invocation.parsed) ]
    /\ UNCHANGED << ingestVars, upsertVars, searchVars >>

InitParse ==
    /\ NoIngestion
    /\ invocation \in { ParseCall(parsed) : parsed \in ParsedFeeds }

NextParse == ParseFeed

SpecParse == InitParse /\ [][NextParse]_vars

\* ------------------------------------------------- ChunkingService.chunk_text

\* The longest text given to chunk_text.
MaxText == 7

\* A text is the list of its characters: a letter, a space, a full stop.
Characters == { "a", " ", "." }

Texts == UNION { [1 .. n -> Characters] : n \in 0 .. MaxText }

\* ChunkingService.__init__ (lines 23-39): the sizes of a service, here with
\* an overlap below min_chunk_size as in the defaults 800, 1200, 100.
ChunkingService(min_chunk_size, max_chunk_size, overlap) ==
    [ min_chunk_size |-> min_chunk_size, max_chunk_size |-> max_chunk_size,
      overlap |-> overlap ]

ChunkingServices == { ChunkingService(3, 5, 1), ChunkingService(2, 4, 1) }

\* Line 83: sentence endings are looked for in the last 200 characters.
SentenceWindow == 200

Min(a, b) == IF a <= b THEN a ELSE b

Max(a, b) == IF a >= b THEN a ELSE b

\* text[a:b], for positions counted from 0.
Slice(text, a, b) == SubSeq(text, a + 1, b)

\* str.strip().
StripText(text) ==
    LET inked == { i \in DOMAIN text : text[i] # " " }
    IN  IF inked = {} THEN << >>
        ELSE SubSeq(text, CHOOSE i \in inked : \A j \in inked : i <= j,
                          CHOOSE i \in inked : \A j \in inked : j <= i)

\* text.rfind(mark + ' ', start) and text.rfind(' '): the last position, from
\* 0, and -1 for none.
RFind2(text, mark, start) ==
    LET found == { i \in start .. Len(text) - 2 :
                     text[i + 1] = mark /\ text[i + 2] = " " }
    IN  IF found = {} THEN 0 - 1
        ELSE CHOOSE i \in found : \A j \in found : j <= i

RFindSpace(text) ==
    LET found == { i \in 0 .. Len(text) - 1 : text[i + 1] = " " }
    IN  IF found = {} THEN 0 - 1
        ELSE CHOOSE i \in found : \A j \in found : j <= i

TextChunk(text, chunk_index, start_pos, end_pos) ==
    [ text |-> text, chunk_index |-> chunk_index, start_pos |-> start_pos,
      end_pos |-> end_pos ]

\* Lines 75-99: the end of the chunk that starts at start_pos.  Only the full
\* stop of the three sentence marks is a character of these texts.
EndPos(self, text, start_pos) ==
    LET end_pos == Min(start_pos + self.max_chunk_size, Len(text))
        window == Slice(text, start_pos, end_pos)
        search_start == Max(0, Len(window) - SentenceWindow)
        last_sentence_end == RFind2(window, ".", search_start)
        last_space == RFindSpace(window)
    IN  IF end_pos < Len(text)
        THEN IF last_sentence_end # 0 - 1
                /\ last_sentence_end > self.min_chunk_size
             THEN start_pos + last_sentence_end + 1
             ELSE IF last_space > self.min_chunk_size
             THEN start_pos + last_space
             ELSE end_pos
        ELSE end_pos

\* NextStart with the character at end_pos passed over.
NextStart_Skip(self, made, end_pos) ==
    end_pos + 1

\* Lines 117-122: the next cursor.  The test of line 121 reads
\* (start_pos <= chunks[-1].start_pos) if chunks else 0, so with no chunk made
\* so far the cursor is never moved up to end_pos.
NextStart(self, made, end_pos) ==
    LET start_pos == end_pos - self.overlap
    IN  IF made # << >> /\ start_pos <= made[Len(made)].start_pos
        THEN end_pos
        ELSE start_pos

\* Lines 101-111: the chunk of the window from start_pos to end_pos is
\* appended unless it is empty after strip().
AppendChunk(text, made, start_pos, end_pos) ==
    LET window == StripText(Slice(text, start_pos, end_pos))
    IN  IF window # << >>
        THEN Append(made, TextChunk(window, Len(made), start_pos, end_pos))
        ELSE made

\* Lines 73-122: the loop, from start_pos on with the chunks made so far.
RECURSIVE ChunkLoop(_, _, _, _)
ChunkLoop(self, text, start_pos, made) ==
    IF ~ (start_pos < Len(text)) THEN made
    ELSE LET end_pos == EndPos(self, text, start_pos)
             appended == AppendChunk(text, made, start_pos, end_pos)
         IN  IF end_pos >= Len(text) THEN appended
             ELSE ChunkLoop(self, text, NextStart(self, appended, end_pos),
                            appended)

\* The test of line 61 that no text passes.
IsShort_Never(self, text) == FALSE

\* Line 61.
IsShort(self, text) == Len(text) <= self.max_chunk_size

\* chunk_text (lines 41-124).
chunk_text(self, text) ==
    IF text = << >> \/ Len(StripText(text)) = 0 THEN << >>
    ELSE IF IsShort(self, text)
    THEN << TextChunk(text, 0, 0, Len(text)) >>
    ELSE ChunkLoop(self, text, 0, << >>)

\* A call of chunk_text that has not returned.
ChunkCall(self, text) ==
    [ fn |-> "chunk_text", returned |-> FALSE, self |-> self, text |-> text ]

\* The call returns.
ChunkText ==
    /\ invocation.fn = "chunk_text" /\ ~ invocation.returned
    /\ invocation' = [ fn |-> "chunk_text", returned |-> TRUE,
                       self |-> invocation.self, text |-> invocation.text,
                       result |-> chunk_text(invocation.self, invocation.text) ]
    /\ UNCHANGED << ingestVars, upsertVars, searchVars >>

InitChunk ==
    /\ NoIngestion
    /\ invocation \in { ChunkCall(self, text) :
                          self \in ChunkingServices, text \in Texts }

NextChunk == ChunkText

SpecChunk == InitChunk /\ [][NextChunk]_vars

\* The loop of chunk_text (lines 69-124), one iteration at a time.  The sizes
\* are any with 0 <= overlap and 0 < min_chunk_size <= max_chunk_size; no
\* line of the service tests them.
LoopServices ==
    ChunkingServices \cup
    { ChunkingService(1, 2, 0), ChunkingService(1, 2, 2),
      ChunkingService(2, 3, 3) }

\* The iterations of the loop that are followed.
MaxIterations == 9

\* The call has passed lines 57-67 and stands at the head of the loop.
LoopCall(self, text) ==
    [ fn |-> "chunk_text.loop", returned |-> FALSE, self |-> self,
      text |-> text, start_pos |-> 0, chunks |-> << >>, iterations |-> 0 ]

\* Lines 73-122: one test of the while condition and one pass of the body.
LoopIteration ==
    LET c == invocation
        end_pos == EndPos(c.self, c.text, c.start_pos)
        appended == AppendChunk(c.text, c.chunks, c.start_pos, end_pos)
    IN  /\ c.fn = "chunk_text.loop" /\ ~ c.returned
        /\ c.iterations < MaxIterations
        /\ invocation' =
              IF ~ (c.start_pos < Len(c.text))
              THEN [c EXCEPT !.returned = TRUE]
              ELSE IF end_pos >= Len(c.text)
              THEN [c EXCEPT !.returned = TRUE, !.chunks = appended,
                             !.iterations = @ + 1]
              ELSE [c EXCEPT !.chunks = appended, !.iterations = @ + 1,
                             !.start_pos = NextStart(c.self, appended, end_pos)]
        /\ UNCHANGED << ingestVars, upsertVars, searchVars >>

InitLoop ==
    /\ NoIngestion
    /\ \E self \in LoopServices :
          \E text \in { t \in Texts : StripText(t) # << >> /\ ~ IsShort(self, t) } :
             invocation = LoopCall(self, text)

NextLoop == LoopIteration

SpecLoop == InitLoop /\ [][NextLoop]_vars

\* ------------------------------------- CountryTagger and TopicTagger.tag_article

\* The most words of a title, and of a content.
MaxWords == 2

\* A text is the list of its lower-case words; a token is a list of one to
\* five words that follow each other.
Ngrams(words, n) ==
    [ i \in 1 .. Max(0, Len(words) - n + 1) |-> SubSeq(words, i, i + n - 1) ]

\* _tokenize: the words, then the phrases of 2, 3, 4 and 5 words.
tokenize(words) ==
    Ngrams(words, 1) \o Ngrams(words, 2) \o Ngrams(words, 3) \o
    Ngrams(words, 4) \o Ngrams(words, 5)

\* A collections.Counter: its keys with their counts, in the order the keys
\* were first counted.
CounterKeys(counter) == { counter[i][1] : i \in DOMAIN counter }

CounterGet(counter, key) ==
    IF key \in CounterKeys(counter)
    THEN (CHOOSE i \in DOMAIN counter : counter[i][1] = key)
    ELSE 0

CounterValue(counter, key) ==
    IF key \in CounterKeys(counter)
    THEN counter[CounterGet(counter, key)][2]
    ELSE 0

\* counter[key] += n, and counter[key] = n.
CounterAdd(counter, key, n) ==
    IF key \in CounterKeys(counter)
    THEN [ i \in DOMAIN counter |->
             IF counter[i][1] = key THEN << key, counter[i][2] + n >>
             ELSE counter[i] ]
    ELSE Append(counter, << key, n >>)

CounterSet(counter, key, n) ==
    [ i \in DOMAIN counter |->
        IF counter[i][1] = key THEN << key, n >> ELSE counter[i] ]

\* Counter.most_common(n): the n keys of the highest counts, highest first,
\* equal counts in the order first counted.
most_common(counter, n) ==
    LET place == [ i \in DOMAIN counter |->
                     1 + Cardinality({ j \in DOMAIN counter :
                            \/ counter[j][2] > counter[i][2]
                            \/ counter[j][2] = counter[i][2] /\ j < i }) ]
    IN  [ k \in 1 .. Min(n, Len(counter)) |->
            counter[CHOOSE i \in DOMAIN counter : place[i] = k] ]

\* The keys of a list of (key, count) with a count above 0.
PositiveKeys(pairs) ==
    LET positive == SelectSeq(pairs, LAMBDA p : p[2] > 0)
    IN  [ i \in DOMAIN positive |-> positive[i][1] ]

\* CountryTagger.__init__ and TopicTagger.__init__: max_countries, max_topics.
max_countries == 3

max_topics == 3

\* COUNTRY_KEYWORDS (country_data.py), some of its keywords: no keyword of
\* the table maps to GE.
keyword_to_country ==
    (<< "germany" >> :> "DE") @@ (<< "france" >> :> "FR") @@
    (<< "united", "states" >> :> "US")

CountryWords == { "germany", "france", "united", "states" }

\* Lines 137-141: 3 for a token of the title, times the words of the token.
weight(token, title_tokens) ==
    (IF token \in title_tokens THEN 3 ELSE 1) * Len(token)

\* _score_countries (lines 128-143): the loop over the tokens.
RECURSIVE score_countries(_, _, _)
score_countries(tokens, title_tokens, country_scores) ==
    IF tokens = << >> THEN country_scores
    ELSE score_countries(
            Tail(tokens), title_tokens,
            IF Head(tokens) \in DOMAIN keyword_to_country
            THEN CounterAdd(country_scores, keyword_to_country[Head(tokens)],
                            weight(Head(tokens), title_tokens))
            ELSE country_scores)

us_indicators ==
    { << "atlanta" >>, << "savannah" >>, << "peach", "state" >>,
      << "georgian", "state" >> }

\* _handle_ambiguous_terms (lines 86-111).
handle_ambiguous_terms(words, country_scores) ==
    IF "GE" \in CounterKeys(country_scores)
       /\ \E indicator \in us_indicators : PhraseIn(words, indicator)
    THEN CounterSet(country_scores, "GE", 0)
    ELSE country_scores

\* CountryTagger.tag_article (lines 155-201): the codes, with the scores they
\* were chosen by.
country_tag_article(title, content) ==
    LET full_text == title \o content
        country_scores ==
            handle_ambiguous_terms(
               full_text,
               score_countries(tokenize(full_text),
                               { tokenize(title)[i] : i \in DOMAIN tokenize(title) },
                               << >>))
    IN  IF full_text = << >> THEN [ tags |-> << >>, scores |-> << >> ]
        ELSE [ tags |-> PositiveKeys(most_common(country_scores,
                                                 max_countries)),
               scores |-> country_scores ]

\* TOPIC_KEYWORDS (topic_data.py), some topics in the order of the dict, each
\* with some of its positive and its negative keywords.
all_topics ==
    << "policy_regulation", "power_grid", "renewables_solar", "renewables_wind" >>

positive_keywords ==
    [ policy_regulation |-> { << "policy" >> },
      power_grid |-> { << "grid" >> },
      renewables_solar |-> { << "solar" >>, << "solar", "panel" >> },
      renewables_wind |-> { << "wind" >> } ]

negative_keywords ==
    [ policy_regulation |-> { << "technical" >> },
      power_grid |-> { << "solar", "panel" >> },
      renewables_solar |-> { << "wind" >> },
      renewables_wind |-> { << "solar" >> } ]

TopicWords == { "policy", "grid", "solar", "panel", "wind" }

\* A penalty of 1 for every token.
penalty_Flat(token, title_tokens) == 1

\* Line 114.
penalty(token, title_tokens) == IF token \in title_tokens THEN 2 ELSE 1

\* Lines 99-108 and 111-115, the two loops over the tokens for one topic:
\* what the hits of the positive keywords add to the score of the topic and
\* what the hits of the negative keywords take from it.
score_positive(topic_id, tokens, title_tokens) ==
    SumOf([ i \in DOMAIN tokens |->
              IF tokens[i] \in positive_keywords[topic_id]
              THEN weight(tokens[i], title_tokens) ELSE 0 ])

score_negative(topic_id, tokens, title_tokens) ==
    SumOf([ i \in DOMAIN tokens |->
              IF tokens[i] \in negative_keywords[topic_id]
              THEN penalty(tokens[i], title_tokens) ELSE 0 ])

\* _score_topics (lines 77-117), the loop over the topics: a topic is a key
\* of the Counter once a token is one of its keywords.
RECURSIVE score_topics(_, _, _, _)
score_topics(topics, tokens, title_tokens, topic_scores) ==
    IF topics = << >> THEN topic_scores
    ELSE LET topic_id == Head(topics)
             hit == \E i \in DOMAIN tokens :
                       tokens[i] \in positive_keywords[topic_id]
                                      \cup negative_keywords[topic_id]
         IN  score_topics(
                Tail(topics), tokens, title_tokens,
                IF hit
                THEN CounterAdd(topic_scores, topic_id,
                                score_positive(topic_id, tokens, title_tokens)
                                - score_negative(topic_id, tokens, title_tokens))
                ELSE topic_scores)

\* TopicTagger.tag_article (lines 119-155): the topics, with the scores they
\* were chosen by.
topic_tag_article(title, content) ==
    LET full_text == title \o content
        topic_scores ==
            score_topics(all_topics, tokenize(full_text),
                         { tokenize(title)[i] : i \in DOMAIN tokenize(title) },
                         << >>)
    IN  IF full_text = << >> THEN [ tags |-> << >>, scores |-> << >> ]
        ELSE [ tags |-> PositiveKeys(most_common(topic_scores, max_topics)),
               scores |-> topic_scores ]

\* A call of tag_article of a tagger that has not returned.
TagCall(tagger, title, content) ==
    [ fn |-> "tag_article", returned |-> FALSE, tagger |-> tagger,
      title |-> title, content |-> content ]

WordLists(words) == UNION { [1 .. n -> words] : n \in 0 .. MaxWords }

\* The call of CountryTagger.tag_article returns.
CountryTagArticle ==
    /\ invocation.fn = "tag_article" /\ ~ invocation.returned
    /\ invocation.tagger = "CountryTagger"
    /\ invocation' = [ fn |-> "tag_article", returned |-> TRUE,
                       tagger |-> invocation.tagger,
                       title |-> invocation.title,
                       content |-> invocation.content,
                       result |-> country_tag_article(invocation.title,
                                                      invocation.content) ]
    /\ UNCHANGED << ingestVars, upsertVars, searchVars >>

\* The call of TopicTagger.tag_article returns.
TopicTagArticle ==
    /\ invocation.fn = "tag_article" /\ ~ invocation.returned
    /\ invocation.tagger = "TopicTagger"
    /\ invocation' = [ fn |-> "tag_article", returned |-> TRUE,
                       tagger |-> invocation.tagger,
                       title |-> invocation.title,
                       content |-> invocation.content,
                       result |-> topic_tag_article(invocation.title,
                                                    invocation.content) ]
    /\ UNCHANGED << ingestVars, upsertVars, searchVars >>

InitTag ==
    /\ NoIngestion
    /\ invocation \in
         { TagCall("CountryTagger", title, content) :
              title \in WordLists(CountryWords),
              content \in WordLists(CountryWords) }
         \cup { TagCall("TopicTagger", title, content) :
                  title \in WordLists(TopicWords),
                  content \in WordLists(TopicWords) }

NextTag == CountryTagArticle \/ TopicTagArticle

SpecTag == InitTag /\ [][NextTag]_vars

\* ---------------------------------------------------------- paywalled sources

\* A Source row of type paywalled: its rss_url is the feed of its entries.
PaywalledSource(es) ==
    [type |-> "paywalled", name |-> "other", registered |-> FALSE, feed |-> es]

\* Enabled-source lists with a paywalled source.
PaywalledSourceLists ==
    { << PaywalledSource(<<"u1">>) >>,
      << RssSource(<<"u2">>), PaywalledSource(<<"u1">>) >> }

\* The worker runs the pipeline over a list with a paywalled source.
InitPaywalled ==
    /\ sources \in PaywalledSourceLists
    /\ active = {"worker"}
    /\ articles = [u \in URLs |-> NoRow]
    /\ chunks = {}
    /\ pl = [p \in Procs |-> IdleRun]
    /\ gh = [p \in Procs |-> NoHistory]
    /\ adm = [t \in Tasks |-> IdleTask]
    /\ article_rows = << >>
    /\ upserts = << >>
    /\ article_chunks = << >>
    /\ searched = NoSearch
    /\ invocation = NoCall

SpecPaywalled == InitPaywalled /\ [][Next]_vars

\* ------------------------------------------------------------ delete_source

\* The ids of the sources and articles tables.
SourceIds == {1, 2}

ArticleIds == 1 .. MaxArticles

\* source_id of an article row after UPDATE articles SET source_id = NULL.
NULL == 0

\* The rows of articles and article_chunks that matter to the foreign keys.
ArticleOf(id, source_id) == [id |-> id, source_id |-> source_id]

ChunkOf(article_id, chunk_index) ==
    [article_id |-> article_id, chunk_index |-> chunk_index]

\* models.py line 42 and line 78: both foreign keys hold in the database.
ForeignKeysHold(db) ==
    /\ \A a \in db.articles : a.source_id \in db.sources
    /\ \A c \in db.chunks : \E a \in db.articles : a.id = c.article_id

\* The databases a request can meet: ids are unique, the chunks of an article
\* are indexed densely from 0.
Databases ==
    { db \in [sources : SUBSET SourceIds,
              articles : SUBSET { ArticleOf(i, s) : i \in ArticleIds, s \in SourceIds },
              chunks : SUBSET { ChunkOf(i, k) : i \in ArticleIds,
                                                k \in 0 .. (MaxChunks - 1) }] :
        /\ ForeignKeysHold(db)
        /\ \A a, b \in db.articles : a.id = b.id => a = b
        /\ \A c \in db.chunks :
              \A k \in 0 .. c.chunk_index : ChunkOf(c.article_id, k) \in db.chunks }

\* models.py line 30: Source.articles has no delete cascade, so the flush of
\* db.delete(source) de-associates its articles: UPDATE articles SET
\* source_id = NULL for each of them.
Deassociate(db_articles, source_id) ==
    { IF a.source_id = source_id THEN ArticleOf(a.id, NULL) ELSE a :
         a \in db_articles }

\* models.py line 42: source_id is nullable=False.
NotNullHolds(db_articles) ==
    \A a \in db_articles : a.source_id # NULL

\* sources.py lines 202-224.  The result is the status of the response and the
\* committed database; a raise of the commit leaves the database as it was.
delete_source(db, source_id) ==
    IF source_id \notin db.sources
    THEN [status_code |-> 404, db |-> db]
    ELSE LET flushed == Deassociate(db.articles, source_id)
         IN  IF ~ NotNullHolds(flushed)
             THEN [status_code |-> 500, db |-> db]
             ELSE [status_code |-> 204,
                   db |-> [db EXCEPT !.sources = @ \ {source_id},
                                     !.articles = flushed]]

DeleteCall(db, source_id) ==
    [fn |-> "delete_source", returned |-> FALSE, db |-> db,
     source_id |-> source_id]

\* DELETE /sources/{source_id}
DeleteSource ==
    /\ invocation.fn = "delete_source"
    /\ ~ invocation.returned
    /\ invocation' =
          [fn |-> "delete_source", returned |-> TRUE, db |-> invocation.db,
           source_id |-> invocation.source_id,
           response |-> delete_source(invocation.db, invocation.source_id)]
    /\ UNCHANGED << ingestVars, upsertVars, searchVars >>

InitDelete ==
    /\ NoIngestion
    /\ \E db \in Databases, source_id \in SourceIds \cup {3} :
          invocation = DeleteCall(db, source_id)

NextDelete == DeleteSource

SpecDelete == InitDelete /\ [][NextDelete]_vars

\* ------------------------------------------------------------ worker.main

\* The firings of the interval trigger that are followed.
MaxFires == 8

\* Line 63: max_instances of the job added to the scheduler.
max_instances == 1

\* The worker process before main() runs: direct is the call of line 72,
\* instances the executor's count of running instances of ingestion_job,
\* skipped the firings it refused.
WorkerCall ==
    [fn |-> "main", returned |-> FALSE, pc |-> "start", direct |-> "none",
     instances |-> 0, fires |-> 0, skipped |-> 0]

\* The executions of run_full_ingestion_pipeline in progress in the process.
InProgress(w) ==
    (IF w.direct = "running" THEN 1 ELSE 0) + w.instances

\* Lines 53-72: the scheduler is started with the job, then the job function
\* is awaited directly; the executor does not count this call.
Main ==
    /\ invocation.fn = "main"
    /\ invocation.pc = "start"
    /\ invocation' = [invocation EXCEPT !.pc = "serving", !.direct = "running"]
    /\ UNCHANGED << ingestVars, upsertVars, searchVars >>

\* The executor's test of a due job: the instance is started unless
\* max_instances instances of the job are running.
submit_job(w) ==
    IF w.instances >= max_instances
    THEN [w EXCEPT !.fires = @ + 1, !.skipped = @ + 1]
    ELSE [w EXCEPT !.fires = @ + 1, !.instances = @ + 1]

\* Line 59: the interval elapses while the event loop runs, which it does
\* whenever main or a job awaits.
Fire ==
    /\ invocation.fn = "main"
    /\ invocation.pc = "serving"
    /\ invocation.fires < MaxFires
    /\ invocation' = submit_job(invocation)
    /\ UNCHANGED << ingestVars, upsertVars, searchVars >>

\* Line 72 returns: the direct call of scheduled_ingestion_job is over, and
\* main sleeps in the loop of lines 76-77.
DirectReturns ==
    /\ invocation.fn = "main"
    /\ invocation.direct = "running"
    /\ invocation' = [invocation EXCEPT !.direct = "returned"]
    /\ UNCHANGED << ingestVars, upsertVars, searchVars >>

\* Lines 28-41: an instance started by the scheduler ends; the executor
\* releases its slot.
JobReturns ==
    /\ invocation.fn = "main"
    /\ invocation.instances > 0
    /\ invocation' = [invocation EXCEPT !.instances = @ - 1]
    /\ UNCHANGED << ingestVars, upsertVars, searchVars >>

InitWorker ==
    /\ NoIngestion
    /\ invocation = WorkerCall

NextWorker ==
    \/ Main
    \/ Fire
    \/ DirectReturns
    \/ JobReturns

SpecWorker == InitWorker /\ [][NextWorker]_vars

\* ------------------------------------------- IngestionService.run_ingestion

\* IngestionStats.__init__ (lines 23-28); failed_sources by its length.
IngestionStats ==
    [new_count |-> 0, updated_count |-> 0, skipped_count |-> 0,
     failed_sources |-> 0, extraction_failed_count |-> 0]

\* An ingestion_runs row (models.py lines 97-108): finished_at by whether it
\* is set, stats by the IngestionStats it was taken from and whether the key
\* "error" was added.  NoRunRow: the row is not stored.
RunRow(status, finished_at, stats, error) ==
    [status |-> status, finished_at |-> finished_at, stats |-> stats,
     error |-> error]

NoRunRow == RunRow("none", FALSE, IngestionStats, FALSE)

\* The feeds of the enabled sources: the URLs of the entries of each.
EnabledSources ==
    { << >>,
      << << "u1" >> >>,
      << << "u1", "u2" >> >>,
      << << "u1" >>, << "u2" >> >>,
      << << "u2", "u1" >>, << "u1" >> >>,
      << << >>, << "u2" >> >> }

\* A call of run_ingestion on a session: run is the IngestionRun object,
\* stored its committed row; pending are the article rows flushed and not
\* committed, committed the articles table; session is "inactive" from a
\* failed flush until rollback() is called.
RunCall(enabled, stored_urls) ==
    [fn |-> "run_ingestion", returned |-> FALSE, pc |-> "create",
     enabled |-> enabled, idx |-> 0, entries |-> << >>,
     session |-> "active", pending |-> {}, committed |-> stored_urls,
     stats |-> IngestionStats, run |-> NoRunRow, stored |-> NoRunRow]

\* Lines 319-327: the run is inserted with status running and committed.
CreateRun ==
    /\ invocation.fn = "run_ingestion"
    /\ invocation.pc = "create"
    /\ invocation' =
          [invocation EXCEPT
              !.pc = "sources",
              !.run = RunRow("running", FALSE, IngestionStats, FALSE),
              !.stored = RunRow("running", FALSE, IngestionStats, FALSE)]
    /\ UNCHANGED << ingestVars, upsertVars, searchVars >>

\* db.commit() of the run object's attributes: on a session that a failed
\* flush left inactive it raises and stores nothing.
CommitRun(c, run) ==
    IF c.session = "inactive"
    THEN [raised |-> TRUE, stored |-> c.stored]
    ELSE [raised |-> FALSE, stored |-> run]

\* Lines 330-341: the enabled sources; with none the run is completed at once.
GetSources ==
    LET c == invocation
        run == RunRow("completed", TRUE, c.stats, FALSE)
    IN  /\ c.fn = "run_ingestion"
        /\ c.pc = "sources"
        /\ invocation' =
              IF c.enabled = << >>
              THEN [c EXCEPT !.pc = "returned", !.returned = TRUE, !.run = run,
                             !.stored = CommitRun(c, run).stored]
              ELSE [c EXCEPT !.pc = "source"]
        /\ UNCHANGED << ingestVars, upsertVars, searchVars >>

\* ingest_source lines 151-169 and 287-301: fetch and parse the feed of the
\* next source; FeedFetchError and ValueError mark the source failed.
FetchAndParse ==
    LET c == invocation
    IN  /\ c.fn = "run_ingestion"
        /\ c.pc = "source"
        /\ c.idx < Len(c.enabled)
        /\ \E outcome \in {"ok", "FeedFetchError", "ValueError"} :
              invocation' =
                 IF outcome = "ok"
                 THEN [c EXCEPT !.pc = "entries", !.idx = @ + 1,
                                !.entries = c.enabled[c.idx + 1]]
                 ELSE [c EXCEPT !.idx = @ + 1, !.stats.failed_sources = @ + 1]
        /\ UNCHANGED << ingestVars, upsertVars, searchVars >>

\* ingest_source lines 172-280: one entry.  The SELECT raises on an inactive
\* session; the flush of a new article can raise (IntegrityError), which rolls
\* the transaction back and leaves the session inactive; every exception is
\* counted as skipped and the loop continues.
ProcessEntry ==
    LET c == invocation
        u == Head(c.entries)
        c1 == [c EXCEPT !.entries = Tail(@)]
    IN  /\ c.fn = "run_ingestion"
        /\ c.pc = "entries"
        /\ c.entries # << >>
        /\ IF c.session = "inactive"
           THEN invocation' = [c1 EXCEPT !.stats.skipped_count = @ + 1]
           ELSE IF u \in c.committed \cup c.pending
           THEN invocation' = [c1 EXCEPT !.stats.updated_count = @ + 1]
           ELSE \E flush \in {"ok", "IntegrityError"}, content \in BOOLEAN :
                   invocation' =
                      IF flush = "IntegrityError"
                      THEN [c1 EXCEPT !.session = "inactive", !.pending = {},
                                      !.stats.skipped_count = @ + 1]
                      ELSE [c1 EXCEPT !.pending = @ \cup {u},
                                      !.stats.new_count = @ + 1,
                                      !.stats.extraction_failed_count =
                                          IF content THEN @ ELSE @ + 1]
        /\ UNCHANGED << ingestVars, upsertVars, searchVars >>

\* ingest_source lines 282-285 and 303-309: the commit after the entries of a
\* source; its raise marks the source failed.
CommitSource ==
    LET c == invocation
    IN  /\ c.fn = "run_ingestion"
        /\ c.pc = "entries"
        /\ c.entries = << >>
        /\ invocation' =
              IF c.session = "inactive"
              THEN [c EXCEPT !.pc = "source", !.stats.failed_sources = @ + 1]
              ELSE [c EXCEPT !.pc = "source", !.pending = {},
                             !.committed = @ \cup c.pending]
        /\ UNCHANGED << ingestVars, upsertVars, searchVars >>

\* Lines 350-354 and 379: after the last source the run is completed.  A raise
\* of the commit enters the handler of line 370.
Finish ==
    LET c == invocation
        run == RunRow("completed", TRUE, c.stats, FALSE)
        commit == CommitRun(c, run)
    IN  /\ c.fn = "run_ingestion"
        /\ c.pc = "source"
        /\ c.idx = Len(c.enabled)
        /\ invocation' =
              IF commit.raised
              THEN [c EXCEPT !.pc = "handler", !.run = run]
              ELSE [c EXCEPT !.pc = "returned", !.returned = TRUE, !.run = run,
                             !.stored = commit.stored]
        /\ UNCHANGED << ingestVars, upsertVars, searchVars >>

\* Lines 370-377: the run is marked failed and committed, and the exception
\* is raised again; a raise of this commit leaves the handler at once.
Handler ==
    LET c == invocation
        run == RunRow("failed", TRUE, c.stats, TRUE)
    IN  /\ c.fn = "run_ingestion"
        /\ c.pc = "handler"
        /\ invocation' = [c EXCEPT !.pc = "raised", !.returned = TRUE,
                                   !.run = run,
                                   !.stored = CommitRun(c, run).stored]
        /\ UNCHANGED << ingestVars, upsertVars, searchVars >>

\* The task that awaits run_ingestion is cancelled: CancelledError is raised
\* at the await the call is suspended in.  It is not an Exception, so no
\* handler of lines 277, 287-303 and 370 catches it; the owner of the session
\* closes it, which rolls back what was not committed.
Cancel ==
    LET c == invocation
    IN  /\ c.fn = "run_ingestion"
        /\ c.pc \in {"sources", "source", "entries", "handler"}
        /\ invocation' = [c EXCEPT !.pc = "cancelled", !.returned = TRUE,
                                   !.pending = {}]
        /\ UNCHANGED << ingestVars, upsertVars, searchVars >>

InitRun ==
    /\ NoIngestion
    /\ \E enabled \in EnabledSources, stored_urls \in {{}, {"u1"}} :
          invocation = RunCall(enabled, stored_urls)

NextRun ==
    \/ CreateRun
    \/ GetSources
    \/ FetchAndParse
    \/ ProcessEntry
    \/ CommitSource
    \/ Finish
    \/ Handler
    \/ Cancel

SpecRun == InitRun /\ [][NextRun]_vars

\* ------------------------------------------------- IngestionMetrics.to_dict

\* The most error messages of a metrics object to_dict is called on.
MaxErrors == 12

\* Line 58: error_details holds the first 10 error messages.
error_details_limit == 10

\* to_dict with every error message copied to error_details.
to_dict_AllErrors(metrics) ==
    [sources_processed |-> metrics.sources_processed,
     articles_fetched |-> metrics.articles_fetched,
     articles_new |-> metrics.articles_new,
     articles_updated |-> metrics.articles_updated,
     articles_extracted |-> metrics.articles_extracted,
     articles_tagged |-> metrics.articles_tagged,
     chunks_created |-> metrics.chunks_created,
     chunks_embedded |-> metrics.chunks_embedded,
     errors |-> Len(metrics.errors),
     error_details |-> metrics.errors]

\* IngestionMetrics.to_dict (lines 43-59), without start_time and
\* duration_seconds: errors is len(self.errors), error_details self.errors[:10].
to_dict(metrics) ==
    [sources_processed |-> metrics.sources_processed,
     articles_fetched |-> metrics.articles_fetched,
     articles_new |-> metrics.articles_new,
     articles_updated |-> metrics.articles_updated,
     articles_extracted |-> metrics.articles_extracted,
     articles_tagged |-> metrics.articles_tagged,
     chunks_created |-> metrics.chunks_created,
     chunks_embedded |-> metrics.chunks_embedded,
     errors |-> Len(metrics.errors),
     error_details |->
        SubSeq(metrics.errors, 1, Min(error_details_limit, Len(metrics.errors)))]

\* A metrics object with n error messages, in the order they were appended.
MetricsWithErrors(n) ==
    [IngestionMetrics EXCEPT !.errors = [i \in 1 .. n |-> << "source", i >>]]

\* The return of lines 114 and 347: metrics.to_dict().
ToDict ==
    /\ invocation.fn = "to_dict" /\ ~ invocation.returned
    /\ invocation' = [fn |-> "to_dict", returned |-> TRUE,
                      metrics |-> invocation.metrics,
                      result |-> to_dict(invocation.metrics)]
    /\ UNCHANGED << ingestVars, upsertVars, searchVars >>

\* The runs of the worker, or a call of to_dict on a metrics object of any
\* number of errors.
InitMetrics ==
    \/ Init
    \/ /\ NoIngestion
       /\ \E n \in 0 .. MaxErrors :
             invocation = [fn |-> "to_dict", returned |-> FALSE,
                           metrics |-> MetricsWithErrors(n)]

NextMetrics ==
    \/ \E p \in Procs : Pipeline(p)
    \/ ToDict

SpecMetrics == InitMetrics /\ [][NextMetrics]_vars

\* ------------------------------------------------------------- properties

SourceErrors(r, i) ==
    { k \in DOMAIN r.metrics.errors : r.metrics.errors[k] = << "source", i >> }

C2_RollbackOnlyThisArticle ==
    \A p \in Procs : gh[p].lostOther = {}

\* C4: a run that follows a run in which every source was read and no store
\* call failed reports articles_new = 0 and deletes or inserts no chunk.
C4_SecondRunIdle ==
    \A p \in Procs :
        pl[p].run >= 2 /\ gh[p].prevClean =>
            /\ pl[p].metrics.articles_new = 0
            /\ gh[p].chunkOps = 0
            /\ pl[p].added = {} /\ pl[p].deleted = {}

\* C6: when a run has returned, every article it inserted and whose extraction
\* raised is committed, with content_text null.
C6_ExtractFailureArticleKept ==
    \A p \in Procs :
        pl[p].pc = "done" =>
            \A u \in gh[p].extractFailedNew :
                articles[u].exists /\ articles[u].content = 0

\* The chunks in S are those of an article of k chunks, none embedded.
UnembeddedChunkSet(S, k) ==
    /\ Cardinality(S) = k
    /\ { c.chunk_index : c \in S } = 0 .. (k - 1)
    /\ \A c \in S : ~ c.embedded

\* C7: when the embed call raised for an article, the session holds, and a
\* successful commit stores, all its chunks with embedding null and the article
\* row with its content and tags; chunks_created has grown by the number of
\* chunks, chunks_embedded and errors have not grown, and the run goes on.
C7_EmbedFailureKeepsChunks ==
    \A p \in Procs :
        LET r == pl[p]
            h == gh[p]
            a == r.article
            u == a.url
            row == ArticleRow(a.content, a.country_codes, a.topic_tags, a.published_at)
            counted ==
                /\ r.metrics.chunks_created = h.m0.chunks_created + a.content
                /\ r.metrics.chunks_embedded = h.m0.chunks_embedded
                /\ r.metrics.errors = h.m0.errors
        IN  /\ h.last = "embed_error" =>
                /\ r.pc = "commit"
                /\ a.content > 0
                /\ UnembeddedChunkSet(ChunkView(p, u), a.content)
                /\ ArticleView(p, u) = row
                /\ counted
            /\ h.last = "commit" /\ a.embedRaised =>
                /\ r.pc = "article"
                /\ UnembeddedChunkSet(StoredChunks(u), a.content)
                /\ articles[u] = row
                /\ counted

\* C7 witness: an article of two or more chunks was committed after its embed
\* call raised.
C7_Witness ==
    \E p \in Procs :
        /\ gh[p].last = "commit"
        /\ pl[p].article.embedRaised
        /\ pl[p].article.content >= 2
        /\ pl[p].article.topic_tags = "tagged"

\* The next entry of p matches a stored article that has content, and p moves.
SkipCase(p) ==
    /\ pl[p].pc = "article"
    /\ pl[p].parsed_articles # <<>>
    /\ ArticleView(p, Head(pl[p].parsed_articles)).exists
    /\ ArticleView(p, Head(pl[p].parsed_articles)).content # 0
    /\ pl'[p] # pl[p]

\* C8: an entry whose URL matches a stored article with content is consumed and
\* nothing else changes: no extraction, tagging or chunk step is entered, the
\* tables and the session are as before, and no counter moves, so the entry stays
\* counted in articles_fetched alone.
C8_ExistingWithContentSkipped ==
    [][ \A p \in Procs :
           SkipCase(p) =>
              /\ pl'[p] = [pl[p] EXCEPT !.parsed_articles = Tail(@)]
              /\ articles' = articles
              /\ chunks' = chunks
              /\ pl[p].metrics.articles_fetched >
                    pl[p].metrics.articles_new + pl[p].metrics.articles_updated
      ]_vars

\* C8 witness: an entry has just been skipped in a run that follows the run
\* that stored the article.
C8_Witness ==
    \E p \in Procs :
        /\ gh[p].last = "skip"
        /\ pl[p].run = 2
        /\ pl[p].metrics.articles_fetched > 0

\* A complete chunk set of an article: k chunks written by one run, with the
\* indices 0 .. k-1, where k is what the article's content chunks into.
CompleteChunkSet(S, p, k) ==
    /\ \A c \in S : c.by = p
    /\ { c.chunk_index : c \in S } = 0 .. (k - 1)
    /\ Cardinality(S) = k

\* C3: a step of a pipeline run leaves the committed chunks of every article
\* as they were or replaces them by a complete new set; a reader of the store
\* never finds an article whose old chunks are gone and whose new ones are
\* missing.
C3_ChunkReplacementAtomic ==
    [][ \A p \in Procs : pl'[p] # pl[p] =>
           \A u \in URLs :
              \/ StoredChunks(u)' = StoredChunks(u)
              \/ /\ articles'[u].content > 0
                 /\ CompleteChunkSet(StoredChunks(u)', p, NChunks(articles'[u].content)) ]_vars

\* C9: the committed chunks of an article carry the indices 0 .. n-1, once
\* each.
C9_ChunkIndexDense ==
    \A u \in URLs :
       LET S == StoredChunks(u)
       IN  /\ { c.chunk_index : c \in S } = 0 .. (Cardinality(S) - 1)
           /\ \A c, d \in S : c.chunk_index = d.chunk_index => c = d


\* The text whose digest is the hash of an entry.
EntryText(e) ==
    e.title \o << "|" >> \o e.url \o << "|" >> \o
    (IF e.summary.isNone THEN << >> ELSE e.summary.value)

\* The hashes stored for a URL in a table.
StoredHashes(rows, url) ==
    { rows[i].hash : i \in { j \in DOMAIN rows : rows[j].url = url } }

\* C5: upsert_article returns inserted exactly when no stored article has the
\* entry's URL, unchanged exactly when the stored hash is the hash of the
\* entry's title, URL and summary, and updated otherwise.  Of two calls in a row
\* with one entry the second returns unchanged, the first returns inserted or
\* updated unless that hash was stored before it, and the table holds one
\* article with the URL.
C5_UpsertResult ==
    upserts # << >> =>
       LET call == upserts[Len(upserts)]
           e == call.entry
           stored == StoredHashes(call.before, e.url)
           same == Some(EntryText(e)) \in stored
       IN  /\ call.inserted <=> stored = {}
           /\ (~ call.inserted /\ ~ call.updated) <=> same
           /\ call.updated <=> (stored # {} /\ ~ same)
           /\ (Len(upserts) = 2 /\ upserts[1].entry = e) =>
                 /\ ~ call.inserted /\ ~ call.updated
                 /\ \/ upserts[1].inserted
                    \/ upserts[1].updated
                    \/ Some(EntryText(e)) \in StoredHashes(upserts[1].before, e.url)
                 /\ Cardinality({ i \in DOMAIN article_rows :
                                     article_rows[i].url = e.url }) = 1

\* An entry is upserted twice over an article the pipeline stored: updated,
\* then unchanged.
C5_Witness ==
    /\ Len(upserts) = 2
    /\ upserts[1].entry = upserts[2].entry
    /\ upserts[1].updated
    /\ ~ upserts[2].inserted /\ ~ upserts[2].updated
    /\ Len(article_rows) = 1

\* A filter list is given when it is there and not empty.
GivenList(list) == ~ list.isNone /\ list.value # {}

\* The chunks a search with the filters can return.
Eligible(table, filters) ==
    { i \in DOMAIN table :
         LET row == table[i]
             f == filters.value
             dated == ~ row.published_at.isNone
         IN  /\ ~ row.embedding.isNone
             /\ filters.isNone
                \/ /\ GivenList(f.countries) =>
                         /\ ~ row.country_codes.isNone
                         /\ row.country_codes.value \cap f.countries.value # {}
                   /\ GivenList(f.topics) =>
                         /\ ~ row.topic_tags.isNone
                         /\ row.topic_tags.value \cap f.topics.value # {}
                   /\ ~ f.date_from.isNone =>
                         dated /\ f.date_from.value <= row.published_at.value
                   /\ ~ f.date_to.isNone =>
                         dated /\ row.published_at.value <= f.date_to.value }

\* Chunk i is no farther from the query of the last search than chunk j.
NoFarther(i, j) ==
    CosineDistanceLE(article_chunks[i].embedding.value,
                     article_chunks[j].embedding.value, searched.query_embedding)

C11_CitationsSatisfyFilters ==
    (invocation.fn = "chat" /\ invocation.returned
        /\ ~ invocation.response.raised) =>
       /\ invocation.response.filters_applied
             = serialize_filters(invocation.filters)
       /\ \A i \in DOMAIN invocation.response.citations :
             filter_conditions(invocation.db[invocation.response.citations[i]],
                               invocation.filters)

\* The grade of a list of similarities: high for a list that is not empty
\* with a maximum of at least 0.80 and a mean of at least 0.70, medium for a
\* list that is not high with a maximum of at least 0.65, low otherwise.
Grade(s) ==
    IF s # << >> /\ (\E i \in DOMAIN s : s[i] >= 80) /\ SumOf(s) >= 70 * Len(s)
    THEN "high"
    ELSE IF \E i \in DOMAIN s : s[i] >= 65 THEN "medium"
    ELSE "low"

\* C12: _assess_confidence returns the grade of the similarities of its
\* chunks, and chat enters the fallback ladder exactly when the grade of the
\* retrieved chunks is low.
C12_ConfidenceGrades ==
    /\ (invocation.fn = "_assess_confidence" /\ invocation.returned) =>
          invocation.result = Grade(invocation.similarities)
    /\ (invocation.fn = "chat" /\ invocation.returned) =>
          /\ (invocation.response.stage # "vector"
                <=> Grade(invocation.response.retrieved) = "low")
          /\ (invocation.response.stage = "vector"
                /\ ~ invocation.response.raised) =>
                invocation.response.confidence
                   = Grade(invocation.response.retrieved)

\* A list with a maximum of at least 0.80 is graded medium for its mean.
C12_Witness ==
    /\ invocation.fn = "_assess_confidence" /\ invocation.returned
    /\ \E i \in DOMAIN invocation.similarities : invocation.similarities[i] >= 80
    /\ invocation.result = "medium"

\* C13: when the caller gives countries and the question names another
\* country, the primary vector search is run with the country of the question
\* as its country filter.
C13_QuestionCountryOverrides ==
    (invocation.fn = "chat" /\ invocation.returned
        /\ ~ invocation.filters.isNone
        /\ Truthy(invocation.filters.value.countries)
        /\ ~ extract_country_from_question(invocation.question).isNone
        /\ extract_country_from_question(invocation.question).value
              \notin invocation.filters.value.countries.value) =>
       /\ ~ invocation.response.search_filters.isNone
       /\ invocation.response.search_filters.value.countries
             = Some({ extract_country_from_question(invocation.question).value })

\* The failures a retry can cure: an I/O error, a timeout, a 5xx status.
Transient == { "io_error", "timeout", "http_5xx" }

\* C14: against a server that answers an attempt with a body or a transient
\* failure, fetch_feed makes attempts until the first success, three at most,
\* returns the body of that success, and raises FeedFetchError only after the
\* third failure.
C14_RetriesTransientFailures ==
    (invocation.fn = "fetch_feed" /\ invocation.returned
        /\ \A n \in 1 .. stop_after_attempt :
              invocation.plan[n] \in Transient \cup { "ok" }) =>
       LET succeeded == { n \in 1 .. stop_after_attempt :
                            invocation.plan[n] = "ok" }
       IN  IF succeeded # {}
           THEN LET first == CHOOSE n \in succeeded : \A m \in succeeded : n <= m
                IN  /\ ~ invocation.result.raised
                    /\ invocation.result.attempts = first
                    /\ invocation.result.text = << "body", first >>
           ELSE /\ invocation.result.raised
                /\ invocation.result.exception = "FeedFetchError"
                /\ invocation.result.attempts = stop_after_attempt

\* The entries of a feed with a title and a URL that are not empty after
\* trimming, and the RSSEntry list of them in the order of the feed.
ValidEntries(entries) ==
    { i \in DOMAIN entries :
        /\ ~ entries[i].title.isNone /\ Strip[entries[i].title.value] # ""
        /\ ~ entries[i].link.isNone /\ Strip[entries[i].link.value] # "" }

IsValidEntriesInOrder(result, entries) ==
    /\ Len(result) = Cardinality(ValidEntries(entries))
    /\ \A i \in ValidEntries(entries) :
          LET j == Cardinality({ m \in ValidEntries(entries) : m <= i })
          IN  /\ result[j].title = Strip[entries[i].title.value]
              /\ result[j].url = Strip[entries[i].link.value]

\* C15 as stated: parse_feed returns, in feed order, exactly the entries with
\* a title and a URL, does not raise when there is one, and raises when there
\* is none.
C15_RaisesWhenNoValidEntry ==
    (invocation.fn = "parse_feed" /\ invocation.returned) =>
       IF ValidEntries(invocation.parsed.entries) = {}
       THEN invocation.result.raised
       ELSE /\ ~ invocation.result.raised
            /\ IsValidEntriesInOrder(invocation.result.entries,
                                     invocation.parsed.entries)

\* C15 amended: parse_feed raises exactly for a malformed document with no
\* entry at all; in every other case it returns, in feed order, exactly the
\* entries with a title and a URL, an empty list when there is none.
C15_ValidEntriesInOrder ==
    (invocation.fn = "parse_feed" /\ invocation.returned) =>
       IF invocation.parsed.bozo /\ invocation.parsed.entries = << >>
       THEN invocation.result.raised
       ELSE /\ ~ invocation.result.raised
            /\ IsValidEntriesInOrder(invocation.result.entries,
                                     invocation.parsed.entries)

\* Two entries are returned, trimmed and in the order of the feed, and an
\* entry between them is skipped.
C15_Witness ==
    /\ invocation.fn = "parse_feed" /\ invocation.returned
    /\ ~ invocation.result.raised
    /\ Len(invocation.parsed.entries) = 3
    /\ ValidEntries(invocation.parsed.entries) = { 1, 3 }
    /\ invocation.parsed.entries[1].title = Some(" t1 ")
    /\ [ i \in 1 .. 2 |-> invocation.result.entries[i].title ] = << "t1", "t2" >>

\* C16 as stated: for every text no longer than max_chunk_size, chunk_text
\* returns exactly one chunk, with chunk_index 0 and the input as its text.
C16_ShortTextOneChunk ==
    (invocation.fn = "chunk_text" /\ invocation.returned
        /\ Len(invocation.text) <= invocation.self.max_chunk_size) =>
       /\ Len(invocation.result) = 1
       /\ invocation.result[1].chunk_index = 0
       /\ invocation.result[1].text = invocation.text

\* C16 amended: for every text no longer than max_chunk_size that has a
\* character other than white space, chunk_text returns exactly one chunk,
\* with chunk_index 0 and the input, not trimmed, as its text; for an empty
\* text and for white space alone it returns no chunk.
C16_ShortInkedTextOneChunk ==
    (invocation.fn = "chunk_text" /\ invocation.returned
        /\ Len(invocation.text) <= invocation.self.max_chunk_size) =>
       IF \E i \in DOMAIN invocation.text : invocation.text[i] # " "
       THEN /\ Len(invocation.result) = 1
            /\ invocation.result[1].chunk_index = 0
            /\ invocation.result[1].text = invocation.text
       ELSE invocation.result = << >>

\* A text of exactly max_chunk_size characters that ends with a space is
\* returned as one chunk.
C16_Witness ==
    /\ invocation.fn = "chunk_text" /\ invocation.returned
    /\ Len(invocation.text) = invocation.self.max_chunk_size
    /\ invocation.text[Len(invocation.text)] = " "
    /\ Len(invocation.result) = 1
    /\ invocation.result[1].text = invocation.text

\* C17: for every text at least min_chunk_size long, every chunk, the last
\* one included, is between min_chunk_size and max_chunk_size long, and each
\* chunk after the first starts overlap characters before the end of the
\* chunk before it.
C17_ChunkLengthsAndOverlap ==
    (invocation.fn = "chunk_text" /\ invocation.returned
        /\ Len(invocation.text) >= invocation.self.min_chunk_size) =>
       /\ \A i \in DOMAIN invocation.result :
             /\ Len(invocation.result[i].text) >= invocation.self.min_chunk_size
             /\ Len(invocation.result[i].text) <= invocation.self.max_chunk_size
       /\ \A i \in 2 .. Len(invocation.result) :
             invocation.result[i].start_pos
                = invocation.result[i - 1].end_pos - invocation.self.overlap

\* The alphabetical order of the country codes.
CodeRank == ("DE" :> 1) @@ ("FR" :> 2) @@ ("GE" :> 3) @@ ("US" :> 4)

\* The codes with a score above 0, by descending score and then by code.
ByScoreThenCode(scores) ==
    LET positive == { i \in DOMAIN scores : scores[i][2] > 0 }
        place == [ i \in positive |->
                     1 + Cardinality({ j \in positive :
                            \/ scores[j][2] > scores[i][2]
                            \/ /\ scores[j][2] = scores[i][2]
                               /\ CodeRank[scores[j][1]] < CodeRank[scores[i][1]] }) ]
    IN  [ k \in 1 .. Min(3, Cardinality(positive)) |->
            scores[CHOOSE i \in positive : place[i] = k][1] ]

\* C18: CountryTagger.tag_article returns the at most 3 codes of the highest
\* scores above 0, by descending score and, for equal scores, by code.
C18_TopCountriesByScoreThenCode ==
    (invocation.fn = "tag_article" /\ invocation.returned
        /\ invocation.tagger = "CountryTagger") =>
       invocation.result.tags = ByScoreThenCode(invocation.result.scores)

\* The tokens of a call, and the tokens of its title.
TokensOf(title, content) == tokenize(title \o content)

TitleTokensOf(title) == { tokenize(title)[i] : i \in DOMAIN tokenize(title) }

\* The score of a topic: for every hit of a positive keyword of the topic the
\* words of the token, three times for a token of the title, less 2 for every
\* hit of a negative keyword of the topic that is a token of the title and 1
\* for every other hit of one.
TopicScore(topic_id, title, content) ==
    LET tokens == TokensOf(title, content)
        hits(kws, n, inTitle) ==
            Cardinality({ i \in DOMAIN tokens :
                            /\ tokens[i] \in kws
                            /\ Len(tokens[i]) = n
                            /\ (tokens[i] \in TitleTokensOf(title)) = inTitle })
        pos == positive_keywords[topic_id]
        neg == negative_keywords[topic_id]
    IN  3 * hits(pos, 1, TRUE) + hits(pos, 1, FALSE)
        + 6 * hits(pos, 2, TRUE) + 2 * hits(pos, 2, FALSE)
        - 2 * (hits(neg, 1, TRUE) + hits(neg, 2, TRUE))
        - (hits(neg, 1, FALSE) + hits(neg, 2, FALSE))

\* C19: the score of every topic is lowered by the hits of its own negative
\* keywords only, by 2 for a token of the title and by 1 otherwise, and
\* TopicTagger.tag_article returns at most 3 topics of a score above 0, by
\* descending score, no topic left out scoring above a topic returned.
C19_TopicPenaltiesAndTop3 ==
    (invocation.fn = "tag_article" /\ invocation.returned
        /\ invocation.tagger = "TopicTagger") =>
       LET tags == invocation.result.tags
           Score(t) == TopicScore(t, invocation.title, invocation.content)
           Topics == { all_topics[i] : i \in DOMAIN all_topics }
           Returned == { tags[i] : i \in DOMAIN tags }
       IN  /\ \A t \in Topics :
                CounterValue(invocation.result.scores, t) = Score(t)
           /\ Len(tags) <= 3
           /\ Cardinality(Returned) = Len(tags)
           /\ \A i \in DOMAIN tags : Score(tags[i]) > 0
           /\ \A i \in 2 .. Len(tags) : Score(tags[i - 1]) >= Score(tags[i])
           /\ \A t \in Topics \ Returned :
                Score(t) > 0 =>
                   /\ Len(tags) = 3
                   /\ \A i \in DOMAIN tags : Score(tags[i]) >= Score(t)

\* Four topics score above 0, one of them lowered by a negative keyword in
\* the title, and three are returned.
C19_Witness ==
    /\ invocation.fn = "tag_article" /\ invocation.returned
    /\ invocation.tagger = "TopicTagger"
    /\ Len(invocation.result.tags) = 3
    /\ Cardinality({ i \in DOMAIN invocation.result.scores :
                       invocation.result.scores[i][2] > 0 }) = 4
    /\ \E i \in DOMAIN all_topics :
          \E token \in negative_keywords[all_topics[i]] :
             /\ token \in TitleTokensOf(invocation.title)
             /\ TopicScore(all_topics[i], invocation.title,
                           invocation.content) > 0

\* The URLs of the entries of the paywalled sources.
PaywalledURLs ==
    UNION { { sources[i].feed[j] : j \in DOMAIN sources[i].feed } :
            i \in { i \in DOMAIN sources : sources[i].type = "paywalled" } }

\* C20: the pipeline never calls the content extractor for an article of a
\* paywalled source, and the articles of a paywalled source are stored with
\* no content_text.
C20_PaywalledNotExtracted ==
    /\ \A p \in Procs :
          (pl[p].article.url \in PaywalledURLs) =>
             gh[p].last \notin { "extracted", "extract_error" }
    /\ \A u \in PaywalledURLs : articles[u].exists => articles[u].content = 0

\* C21: deleting a source that has articles through delete_source succeeds
\* (204) and removes all of its articles and their chunks, and afterwards every
\* stored article references an existing source and every stored chunk an
\* existing article.
C21_DeleteSourceCascades ==
    (/\ invocation.fn = "delete_source"
     /\ invocation.returned
     /\ \E a \in invocation.db.articles : a.source_id = invocation.source_id)
    => LET before == invocation.db
           after  == invocation.response.db
           owned  == { a.id : a \in { b \in before.articles :
                                         b.source_id = invocation.source_id } }
       IN  /\ invocation.response.status_code = 204
           /\ invocation.source_id \notin after.sources
           /\ \A a \in after.articles : a.id \notin owned
           /\ \A c \in after.chunks : c.article_id \notin owned
           /\ ForeignKeysHold(after)

\* C22: every chunk the pipeline commits carries the country_codes, topic_tags
\* and published_at that its parent article has in the tables of that commit,
\* also when tagging raised part-way or the NESO override set the country.
C22_ChunksDenormalized ==
    [][\A c \in chunks' \ chunks :
          c.by \in Procs =>
             /\ articles'[c.url].exists
             /\ c.country_codes = articles'[c.url].country_codes
             /\ c.topic_tags = articles'[c.url].topic_tags
             /\ c.published_at = articles'[c.url].published_at]_vars

\* A committed chunk of a dated NESO article whose topic tagging raised after
\* the override had set the country.
C22_Witness ==
    \E c \in chunks :
       /\ c.by \in Procs
       /\ c.country_codes = "GB"
       /\ c.topic_tags = "NULL"
       /\ c.published_at # "NULL"

\* C23: in the worker process at most one execution of
\* run_full_ingestion_pipeline is in progress at any time, counting the run
\* started directly at startup and the runs fired by the scheduler.
C23_AtMostOneExecution ==
    invocation.fn = "main" => InProgress(invocation) <= 1

\* C24: when an ingestion run is cancelled part-way, no article is left
\* flushed and uncommitted, and the run is recorded with status failed together
\* with the stats accumulated so far.
C24_CancelledRunRecordedFailed ==
    (invocation.fn = "run_ingestion" /\ invocation.pc = "cancelled")
    => /\ invocation.pending = {}
       /\ invocation.stored.status = "failed"
       /\ invocation.stored.finished_at
       /\ invocation.stored.stats = invocation.stats

\* C25: when run_ingestion returns or raises, the stored run has status
\* completed or failed and finished_at set, also after a database error in
\* the processing of an entry; when it returns, the status is completed.
C25_RunLeavesRunning ==
    (invocation.fn = "run_ingestion" /\ invocation.pc \in {"returned", "raised"})
    => /\ invocation.stored.status \in {"completed", "failed"}
       /\ invocation.stored.finished_at
       /\ invocation.pc = "returned" => invocation.stored.status = "completed"

\* C26: chunk_text terminates for every text and all sizes with 0 <= overlap
\* and 0 < min_chunk_size <= max_chunk_size: the cursor start_pos strictly
\* increases on every iteration of the loop that is followed by another, also
\* on and after an iteration whose window is all whitespace.
C26_CursorIncreases ==
    [][(invocation.fn = "chunk_text.loop" /\ ~ invocation'.returned)
          => invocation'.start_pos > invocation.start_pos]_vars

\* The positions of the text, from 1, that lie in the range of chunk i.
RangeOf(result, i) ==
    (result[i].start_pos + 1) .. result[i].end_pos

\* C27 as stated: for every non-blank text the ranges of the chunks leave no
\* gap: the first starts at 0, each following one starts at or before the end
\* of the one before, the last ends at len(text), every character that is not
\* white space lies in the text of some chunk, and chunk_index runs from 0 to
\* n-1 in cursor order.
C27_RangesLeaveNoGap ==
    (invocation.fn = "chunk_text" /\ invocation.returned
        /\ StripText(invocation.text) # << >>) =>
       LET result == invocation.result
       IN  /\ result # << >>
           /\ result[1].start_pos = 0
           /\ \A i \in 2 .. Len(result) :
                 result[i].start_pos <= result[i - 1].end_pos
           /\ result[Len(result)].end_pos = Len(invocation.text)
           /\ \A p \in DOMAIN invocation.text :
                 invocation.text[p] # " " =>
                    \E i \in DOMAIN result : p \in RangeOf(result, i)
           /\ \A i \in DOMAIN result :
                 /\ result[i].chunk_index = i - 1
                 /\ i > 1 => result[i].start_pos > result[i - 1].start_pos

\* C27 amended: for every non-blank text the ranges of the chunks leave no gap
\* but white space: every character outside all ranges is white space, the
\* text of a chunk holds every other character of its range in order, and
\* chunk_index runs from 0 to n-1 in cursor order.
C27_RangesLeaveOnlyWhitespace ==
    (invocation.fn = "chunk_text" /\ invocation.returned
        /\ StripText(invocation.text) # << >>) =>
       LET result == invocation.result
       IN  /\ result # << >>
           /\ \A p \in DOMAIN invocation.text :
                 invocation.text[p] # " " =>
                    \E i \in DOMAIN result : p \in RangeOf(result, i)
           /\ \A i \in DOMAIN result :
                 /\ StripText(result[i].text)
                       = StripText(Slice(invocation.text, result[i].start_pos,
                                         result[i].end_pos))
                 /\ result[i].chunk_index = i - 1
                 /\ i > 1 => result[i].start_pos > result[i - 1].start_pos

\* A text whose chunks leave white space uncovered: before the first range,
\* between two ranges, or after the last.
C27_Witness ==
    /\ invocation.fn = "chunk_text" /\ invocation.returned
    /\ Len(invocation.result) >= 2
    /\ \/ invocation.result[1].start_pos > 0
       \/ invocation.result[2].start_pos > invocation.result[1].end_pos
       \/ invocation.result[Len(invocation.result)].end_pos < Len(invocation.text)

\* What a country_codes column is meant to hold after tagging: the list ["GB"]
\* of the NESO override, or the first component of the country tagger's result
\* (country_tagger.py lines 191-194), at most max_countries codes.
CountryCodeLists == { "GB", "codes" }

\* C28: after a tagging step that did not raise, article.country_codes is a
\* list of country codes (the tagger's code list, or [GB] for NESO) and
\* article.topic_tags a list of topic ids; neither holds the tagger's metadata,
\* and the chunks the pipeline commits receive the same values.
C28_TagsAreCodeLists ==
    /\ \A p \in Procs :
          gh[p].last = "tagged" =>
             /\ pl[p].article.country_codes \in CountryCodeLists
             /\ pl[p].article.topic_tags = "tagged"
    /\ \A c \in chunks :
          (c.by \in Procs /\ c.country_codes # "NULL") =>
             c.country_codes \in CountryCodeLists

\* C29: for every chat response, confidence is low exactly when the citation
\* list is empty; a response from vector retrieval has citations, confidence
\* high or medium and no two citations of one article; a response of a
\* fallback stage has citations, confidence medium and similarity 0 on each.
C29_ConfidenceAndCitations ==
    (invocation.fn = "chat" /\ invocation.returned
        /\ ~ invocation.response.raised) =>
       LET response == invocation.response
           n == Len(response.citations)
       IN  /\ response.confidence = "low" <=> response.citations = << >>
           /\ response.citations = << >> <=> response.stage = "general"
           /\ Len(response.similarity) = n
           /\ response.stage = "vector" =>
                 /\ response.confidence \in {"high", "medium"}
                 /\ \A i, j \in 1 .. n :
                       response.citations[i] = response.citations[j] => i = j
           /\ response.stage \in {"country", "keyword"} =>
                 /\ response.confidence = "medium"
                 /\ \A i \in 1 .. n : response.similarity[i] = 0

\* A response of vector retrieval that cites one article for two of its
\* chunks.
C29_Witness ==
    /\ invocation.fn = "chat" /\ invocation.returned
    /\ ~ invocation.response.raised
    /\ invocation.response.stage = "vector"
    /\ Len(invocation.response.citations) < Len(invocation.response.retrieved)

\* The counters of a metrics object, in the order of the stages.
MetricsOrdered(m) ==
    /\ m.chunks_embedded <= m.chunks_created
    /\ m.articles_tagged <= m.articles_extracted
    /\ m.articles_extracted <= m.articles_new + m.articles_updated
    /\ m.articles_new + m.articles_updated <= m.articles_fetched

\* From m to n no counter decreases and error messages are only appended.
MetricsGrow(m, n) ==
    /\ n.sources_processed >= m.sources_processed
    /\ n.articles_fetched >= m.articles_fetched
    /\ n.articles_new >= m.articles_new
    /\ n.articles_updated >= m.articles_updated
    /\ n.articles_extracted >= m.articles_extracted
    /\ n.articles_tagged >= m.articles_tagged
    /\ n.chunks_created >= m.chunks_created
    /\ n.chunks_embedded >= m.chunks_embedded
    /\ Len(n.errors) >= Len(m.errors)
    /\ SubSeq(n.errors, 1, Len(m.errors)) = m.errors

\* C30: at every point of a pipeline run and in the returned metrics,
\* chunks_embedded <= chunks_created and articles_tagged <= articles_extracted
\* <= articles_new + articles_updated <= articles_fetched; within a run every
\* counter only increases; errors is the number of error messages appended and
\* error_details holds the first min(10, errors) of them.
C30_MetricsConsistent ==
    /\ [](\A p \in Procs :
             /\ MetricsOrdered(pl[p].metrics)
             /\ MetricsOrdered(to_dict(pl[p].metrics))
             /\ to_dict(pl[p].metrics).errors = Len(pl[p].metrics.errors))
    /\ []((invocation.fn = "to_dict" /\ invocation.returned) =>
             LET errors == invocation.metrics.errors
                 result == invocation.result
             IN  /\ result.errors = Len(errors)
                 /\ Len(result.error_details) = Min(10, Len(errors))
                 /\ \A i \in DOMAIN result.error_details :
                       result.error_details[i] = errors[i])
    /\ [][\A p \in Procs :
             pl'[p].run = pl[p].run => MetricsGrow(pl[p].metrics, pl'[p].metrics)]_vars

\* A point of a run at which chunks were created and not all embedded, an
\* article was extracted and not tagged, and an error message was appended.
C30_Witness ==
    \E p \in Procs :
       LET m == pl[p].metrics
       IN  /\ m.chunks_embedded < m.chunks_created
           /\ m.articles_tagged < m.articles_extracted
           /\ m.errors # << >>

====
